---- MODULE Spec2Model ----
(***************************************************************************)
(* Model of the data-collector ETL pipeline: the Gold-layer enrichment     *)
(* (AIEnricher, ParallelAIEnricher), the writers of its side inputs (CSV   *)
(* upload, manual POI form), the archive tile Harvester, the OSMExtractor, *)
(* the Standardizer with its translator and validator, the SupabaseLoader  *)
(* and run_pipeline.                                                       *)
(*                                                                         *)
(* Python dicts are records; a key a dict does not carry is a field the    *)
(* record does not have.  JSON files are [exists, valid, recs]: a file     *)
(* opened with mode 'w' and not yet dumped is on disk as an empty,         *)
(* unparseable file (exists, not valid).                                   *)
(***************************************************************************)
EXTENDS Integers, Sequences, FiniteSets, TLC

\* ------------------------------------------------------------------ bounds
MaxSilver == 2      \* records in the Silver pois.json
MaxRows == 1        \* rows of one uploaded CSV
MaxCsv == 2         \* records kept in csv_pois.json
MaxLimit == 2       \* largest value of process_city's limit argument
MaxContent == 2     \* tokens of a backend response text
MaxWorkers == 2     \* max_workers of the parallel enricher's pool
MaxNorth == 2       \* the bounding box's height, in units of half a step
MaxEast == 3        \* the bounding box's width, in units of half a step
MaxRequests == 6    \* HTTP requests followed within one fetch_tile
MantissaBits == 3   \* bits of a float's significand
MaxCoord == 16      \* largest coordinate of a bounding box given to generate_tiles
MaxStep == 5        \* largest step given to generate_tiles
RecursionLimit == 7 \* nested _fetch_tile calls the interpreter allows (CPython: about 1000)
MaxPois == 101      \* records in the Gold pois.json given to the loader
MaxLoads == 2       \* load_gold_layer runs followed for one city
MaxCities == 2      \* cities in the list run_pipeline goes through
MaxRaw == 3         \* raw elements in the tile files of a harvest
MaxList == 3        \* records in a list given to _deduplicate
MaxBatch == 2       \* records in a list given to validate_batch
MaxName == 2        \* letters of a name written in one script
MaxTags == 2        \* OSM tags in the metadata of a record given to score_poi
MaxParse == 4       \* tokens of a response text given to _enrich_poi on its own

VARIABLES
    today,          \* the calendar day (pd.Timestamp.now() at day precision)
    silver,         \* layers/silver/<city>/pois.json
    csvFile,        \* layers/silver/<city>/csv_pois.json
    manualFile,     \* layers/silver/<city>/manual_pois.json
    gold,           \* layers/gold/<city>/pois.json
    pc,             \* position of the running process_city ("idle": none)
    limit,          \* process_city's limit argument
    prioritized,    \* prioritized_pois (sequential) / to_enrich (parallel)
    idx,            \* loop position in prioritized (1-based)
    count,          \* count
    enriched_pois,  \* enriched_pois (in memory)
    existing_ids,   \* existing_ids
    completed,      \* parallel run: the futures as_completed has yielded
    goldAtStart,    \* the Gold records read when the run started (existing_pois)
    calls,          \* history: backend calls of this run, in order
    prev,           \* history: how the last run ended, while its inputs stand:
                    \* "short" (below its limit), "capped" (at it), else "none"
    bbox,           \* the city's bounding box (harvest_city's argument)
    tileFiles,      \* raw_data/<city>/tile_<i>.json that exist
    h_pc,           \* position of the running harvest_city ("idle": none)
    tiles,          \* tiles
    tile_i,         \* the loop index i of harvest_city
    success_count,  \* success_count
    retries,        \* fetch_tile: retries
    backoff,        \* fetch_tile: backoff
    nreq,           \* history: HTTP requests of the current fetch_tile
    seen,           \* history: classes of the responses of the current fetch_tile
    sleeps,         \* history: time.sleep arguments of the current fetch_tile
    fetched,        \* what the last fetch_tile returned ("none" before any)
    requested,      \* history: this harvest_city issued an HTTP request
    allPresentAtStart, \* history: every tile file existed when the run started
    t_pc,           \* generate_tiles as a function: "input", then "done"
    t_bbox,         \* its bbox argument
    t_step,         \* its step argument
    t_tiles,        \* the list it returned
    x_pc,           \* OSMExtractor.extract_city: "idle", "fetch", "done"
    x_i,            \* its loop index i
    x_depth,        \* nested _fetch_tile calls below the one extract_city made
    x_files,        \* tile_<i>.json written by this extract_city
    x_result,       \* what the last extract_city returned ("none" before any)
    x_nreq,         \* history: HTTP requests for the current tile
    x_limited,      \* history: tiles given up at the recursion limit
    l_pc,           \* SupabaseLoader.load_gold_layer: "idle", "batch", "done"
    l_n,            \* len(activities): the records of the Gold pois.json
    l_i,            \* the loop variable i of the batch loop
    l_table,        \* the activities table: how many rows it holds of each record
    l_reported,     \* the count in the last "Successfully loaded" line (-1: none)
    l_attempts,     \* history: the batches of this load, [first, last, ok]
    l_loads,        \* history: loads that reached the batch loop and finished
    l_first,        \* history: the table when the first such load finished
    p_pc,           \* run_pipeline: "idle", the stage about to run, "finished"
    p_city,         \* position of the for loop in the city list (1-based)
    p_configured,   \* the cities of the list that CITIES has an entry for
    p_bronze,       \* cities with a harvest directory under layers/bronze
    p_silver,       \* cities with layers/silver/<city>/pois.json
    p_gold,         \* cities with a directory under layers/gold
    p_log,          \* history: the stages run for the current city, [stage, result]
    p_visited,      \* history: the cities whose stages were started in this run
    c_bronze,       \* layers/bronze/<city>: "nodir", "noharvest" (no harvest
                    \* directory in it) or "harvest"
    c_tiles,        \* the tile files of the latest harvest, in glob order
    c_result,       \* what the last Standardizer.process_city did ("none" before any)
    c_runs,         \* history: Standardizer.process_city calls so far (2: two or more)
    c_before,       \* history: the Silver pois.json before the last such call
    u_fn,           \* the function applied to an input on its own ("none": not yet)
    u_in,           \* its argument
    u_out           \* what it returned

fileVars == <<today, silver, csvFile, manualFile, gold>>

runVars == <<pc, limit, prioritized, idx, count, enriched_pois, existing_ids,
             completed, goldAtStart, calls>>

enrichVars == <<fileVars, runVars, prev>>

fetchVars == <<retries, backoff, nreq, seen, sleeps>>

harvestVars == <<bbox, tileFiles, h_pc, tiles, tile_i, success_count, fetchVars,
                 fetched, requested, allPresentAtStart>>

\* generate_tiles applied to one input
tilingVars == <<t_pc, t_bbox, t_step, t_tiles>>

\* the stages modelled apart from the Gold stage and the archive harvest
\* OSMExtractor.extract_city
extractVars == <<x_pc, x_i, x_depth, x_files, x_result, x_nreq, x_limited>>

\* SupabaseLoader.load_gold_layer
loadVars == <<l_pc, l_n, l_i, l_table, l_reported, l_attempts, l_loads, l_first>>

\* scripts/run_full_pipeline.py, run_pipeline
pipelineVars == <<p_pc, p_city, p_configured, p_bronze, p_silver, p_gold,
                  p_log, p_visited>>

\* Standardizer.process_city
cleanVars == <<c_bronze, c_tiles, c_result, c_runs, c_before>>

\* one function applied to one input
callVars == <<u_fn, u_in, u_out>>

stageVars == <<tilingVars, extractVars, loadVars, pipelineVars, cleanVars, callVars>>

vars == <<enrichVars, harvestVars, stageVars>>

\* ------------------------------------------------------------ dict helpers
Get(d, k, default) == IF k \in DOMAIN d THEN d[k] ELSE default

\* dict.update(other): other's keys win
Update(d, other) == other @@ d

\* dict.setdefault(k, v)
SetDefault(d, k, v) == IF k \in DOMAIN d THEN d ELSE (k :> v) @@ d

Absent == [exists |-> FALSE, valid |-> FALSE, recs |-> <<>>]
Truncated == [exists |-> TRUE, valid |-> FALSE, recs |-> <<>>]
FileOf(recs) == [exists |-> TRUE, valid |-> TRUE, recs |-> recs]

CityName == "Tbilisi"

\* -------------------------------------------------------------- text
\* A str is the sequence of its characters.  A character is a one-letter
\* string for ASCII; "ge:<letter>" is a Georgian letter (U+10D0..U+10F0, named
\* as in Unicode), "ge:he" the Georgian letter U+10F1 that the transliteration
\* table lacks, "cy:<letter>" and "CY:<letter>" a small and a capital Russian
\* letter, "ar:alef" an Arabic letter.
LowerLetters ==
    <<"a", "b", "c", "d", "e", "f", "g", "h", "i", "j", "k", "l", "m", "n",
    "o", "p", "q", "r", "s", "t", "u", "v", "w", "x", "y", "z">>

UpperLetters ==
    <<"A", "B", "C", "D", "E", "F", "G", "H", "I", "J", "K", "L", "M", "N",
    "O", "P", "Q", "R", "S", "T", "U", "V", "W", "X", "Y", "Z">>

DigitChars == {"0", "1", "2", "3", "4", "5", "6", "7", "8", "9"}

Range(f) == {f[i] : i \in DOMAIN f}

IndexIn(f, c) == CHOOSE i \in DOMAIN f : f[i] = c

GeorgianLetters ==
    {"ge:an", "ge:ban", "ge:gan", "ge:don", "ge:en", "ge:vin", "ge:zen",
    "ge:tan", "ge:in", "ge:kan", "ge:las", "ge:man", "ge:nar", "ge:on",
    "ge:par", "ge:zhar", "ge:rae", "ge:san", "ge:tar", "ge:un", "ge:phar",
    "ge:khar", "ge:ghan", "ge:qar", "ge:shin", "ge:chin", "ge:can",
    "ge:jil", "ge:cil", "ge:char", "ge:xan", "ge:jhan", "ge:hae"}

CyrillicSmall ==
    {"cy:a", "cy:be", "cy:ve", "cy:ghe", "cy:de", "cy:ie", "cy:io",
    "cy:zhe", "cy:ze", "cy:i", "cy:short_i", "cy:ka", "cy:el", "cy:em",
    "cy:en", "cy:o", "cy:pe", "cy:er", "cy:es", "cy:te", "cy:u", "cy:ef",
    "cy:ha", "cy:tse", "cy:che", "cy:sha", "cy:shcha", "cy:hard",
    "cy:yeru", "cy:soft", "cy:e", "cy:yu", "cy:ya"}

CyrillicCapital ==
    {"CY:a", "CY:be", "CY:ve", "CY:ghe", "CY:de", "CY:ie", "CY:io",
    "CY:zhe", "CY:ze", "CY:i", "CY:short_i", "CY:ka", "CY:el", "CY:em",
    "CY:en", "CY:o", "CY:pe", "CY:er", "CY:es", "CY:te", "CY:u", "CY:ef",
    "CY:ha", "CY:tse", "CY:che", "CY:sha", "CY:shcha", "CY:hard",
    "CY:yeru", "CY:soft", "CY:e", "CY:yu", "CY:ya"}

\* [Ⴀ-ჿ] and [Ѐ-ӿ]
IsGeorgian(c) == c \in GeorgianLetters \cup {"ge:he"}

IsCyrillic(c) == c \in CyrillicSmall \cup CyrillicCapital

\* the capital and the small form of one Russian letter
CyrillicPair(capital, small) ==
    \/ (capital = "CY:a" /\ small = "cy:a")
    \/ (capital = "CY:be" /\ small = "cy:be")
    \/ (capital = "CY:ve" /\ small = "cy:ve")
    \/ (capital = "CY:ghe" /\ small = "cy:ghe")
    \/ (capital = "CY:de" /\ small = "cy:de")
    \/ (capital = "CY:ie" /\ small = "cy:ie")
    \/ (capital = "CY:io" /\ small = "cy:io")
    \/ (capital = "CY:zhe" /\ small = "cy:zhe")
    \/ (capital = "CY:ze" /\ small = "cy:ze")
    \/ (capital = "CY:i" /\ small = "cy:i")
    \/ (capital = "CY:short_i" /\ small = "cy:short_i")
    \/ (capital = "CY:ka" /\ small = "cy:ka")
    \/ (capital = "CY:el" /\ small = "cy:el")
    \/ (capital = "CY:em" /\ small = "cy:em")
    \/ (capital = "CY:en" /\ small = "cy:en")
    \/ (capital = "CY:o" /\ small = "cy:o")
    \/ (capital = "CY:pe" /\ small = "cy:pe")
    \/ (capital = "CY:er" /\ small = "cy:er")
    \/ (capital = "CY:es" /\ small = "cy:es")
    \/ (capital = "CY:te" /\ small = "cy:te")
    \/ (capital = "CY:u" /\ small = "cy:u")
    \/ (capital = "CY:ef" /\ small = "cy:ef")
    \/ (capital = "CY:ha" /\ small = "cy:ha")
    \/ (capital = "CY:tse" /\ small = "cy:tse")
    \/ (capital = "CY:che" /\ small = "cy:che")
    \/ (capital = "CY:sha" /\ small = "cy:sha")
    \/ (capital = "CY:shcha" /\ small = "cy:shcha")
    \/ (capital = "CY:hard" /\ small = "cy:hard")
    \/ (capital = "CY:yeru" /\ small = "cy:yeru")
    \/ (capital = "CY:soft" /\ small = "cy:soft")
    \/ (capital = "CY:e" /\ small = "cy:e")
    \/ (capital = "CY:yu" /\ small = "cy:yu")
    \/ (capital = "CY:ya" /\ small = "cy:ya")

\* str.lower() and str.upper() on one character
LowerChar(c) ==
    IF c \in Range(UpperLetters) THEN LowerLetters[IndexIn(UpperLetters, c)]
    ELSE IF c \in CyrillicCapital
         THEN CHOOSE d \in CyrillicSmall : CyrillicPair(c, d)
    ELSE c

UpperChar(c) ==
    IF c \in Range(LowerLetters) THEN UpperLetters[IndexIn(LowerLetters, c)]
    ELSE IF c \in CyrillicSmall
         THEN CHOOSE d \in CyrillicCapital : CyrillicPair(d, c)
    ELSE c

Lower(text) == [i \in 1..Len(text) |-> LowerChar(text[i])]

\* str.capitalize(): the first character upper case, the rest lower case
Capitalize(text) ==
    [i \in 1..Len(text) |-> IF i = 1 THEN UpperChar(text[i]) ELSE LowerChar(text[i])]

\* str.strip() of the names of the model, which carry no outer whitespace
Strip(text) == text

\* the names the model draws from
OldFort == <<"O", "l", "d", " ", "F", "o", "r", "t">>
OldFortSmall == <<"o", "l", "d", " ", "f", "o", "r", "t">>
Tsikhe == <<"ge:can", "ge:in", "ge:xan", "ge:en">>
Krepost == <<"CY:ka", "cy:er", "cy:ie", "cy:pe", "cy:o", "cy:es", "cy:te", "cy:soft">>
TestBar == <<"T", "e", "s", "t", " ", "B", "a", "r">>
Narikala == <<"N", "a", "r", "i", "k", "a", "l", "a">>
Abc == <<"A", "B", "C">>
OneTwoThree == <<"1", "2", "3">>
Ab == <<"a", "b">>
OldFortCopy == <<"O", "l", "d", " ", "F", "o", "r", "t", " ", "(", "c", "o", "p", "y", ")">>

\* --------------------------------------------------------- the Silver layer
\* Records Standardizer._process_elements writes: osm_id "<type>/<id>", a
\* category and the element's tags (here: the tag keys the enricher reads).
OsmCategory(k) ==
    CASE k = 1 -> "historic"
      [] k = 2 -> "restaurant"
      [] k = 3 -> "museum"
      [] OTHER -> "unknown"

OsmTags(k) ==
    CASE k = 2 -> {"wikipedia", "website"}
      [] k = 4 -> {"opening_hours"}
      [] OTHER -> {}

OsmPoi(k) ==
    [osm_id |-> <<"osm", 0, k>>, category |-> OsmCategory(k),
     poi_type |-> OsmCategory(k), tags |-> OsmTags(k)]

SilverRecs(n) == [k \in 1..n |-> OsmPoi(k)]

\* ------------------------------------------------ CSVStandardizer.process_csv
\* the uploaded sheet: row i carries a name and coordinates or not (valid);
\* its category column alternates
CsvCategory(i) == IF i % 2 = 0 THEN "unknown" ELSE "museum"

\* a sheet of well-formed rows: where a row carries its name and coordinates
\* they are a plain English name and a point in Georgia
CsvRow == [valid : BOOLEAN, name : {OldFort}, lat : {41}, lon : {44}]

\* a sheet as a user may upload it: any text as a name, any number as a
\* latitude
CsvRowAny == [valid : {TRUE}, name : {OldFort, Krepost, TestBar},
              lat : {41, 95}, lon : {44}]

CsvRowsInputs == UNION {[1..n -> CsvRow] : n \in 1..MaxRows}

CsvRowsAnyInputs == UNION {[1..n -> CsvRowAny] : n \in 1..MaxRows}

\* the row's dict (lines 44-53); the DataFrame index i is 0-based
CsvPoi(row, day, i, category) ==
    [name |-> row.name, category |-> category,
     coordinates |-> [lat |-> row.lat, lng |-> row.lon], tags |-> {"source"},
     osm_id |-> <<"csv", day, i>>, priority_score |-> 100, is_manual |-> TRUE]

RECURSIVE CsvPois(_, _, _)
CsvPois(rows, day, i) ==
    IF i > Len(rows) THEN <<>>
    ELSE (IF rows[i].valid THEN <<CsvPoi(rows[i], day, i - 1, CsvCategory(i - 1))>> ELSE <<>>)
         \o CsvPois(rows, day, i + 1)

\* ------------------------------------------------- AIEnricher pure helpers
\* lines 44-47 and 59-62: p['priority_score'] = 100; p['is_manual'] = True
ForceManual(recs) ==
    [i \in 1..Len(recs) |->
        Update(recs[i], [priority_score |-> 100, is_manual |-> TRUE])]

\* the score of one POI (lines 117-134)
Score(poi) ==
    LET cat == IF "category" \in DOMAIN poi THEN poi.category
               ELSE Get(poi, "poi_type", "")
        tags == Get(poi, "tags", {})
        base == IF cat \in {"museum", "attraction", "viewpoint"} THEN 50
                ELSE IF cat \in {"historic", "castle", "ruins"} THEN 40
                ELSE IF cat \in {"restaurant", "cafe"} THEN 10
                ELSE 0
        boost == (IF "wikipedia" \in tags THEN 20 ELSE 0)
                 + (IF "website" \in tags THEN 10 ELSE 0)
                 + (IF "opening_hours" \in tags THEN 5 ELSE 0)
        score == base + boost
    IN IF score < 100 THEN score ELSE 100

RECURSIVE InsertDescLastFirst(_, _)
\* an insertion that puts a record before the records of equal score
InsertDescLastFirst(sorted, p) ==
    IF sorted = <<>> THEN <<p>>
    ELSE IF Head(sorted).priority_score > p.priority_score
         THEN <<Head(sorted)>> \o InsertDescLastFirst(Tail(sorted), p)
         ELSE <<p>> \o sorted

\* sorted(pois, key=priority_score, reverse=True): stable, ties in input order
RECURSIVE InsertDesc(_, _)
InsertDesc(sorted, p) ==
    IF sorted = <<>> THEN <<p>>
    ELSE IF Head(sorted).priority_score >= p.priority_score
         THEN <<Head(sorted)>> \o InsertDesc(Tail(sorted), p)
         ELSE <<p>> \o sorted

RECURSIVE SortDesc(_)
SortDesc(pois) ==
    IF pois = <<>> THEN <<>>
    ELSE InsertDesc(SortDesc(SubSeq(pois, 1, Len(pois) - 1)), pois[Len(pois)])

\* AIEnricher._prioritize_pois
PrioritizePois(pois) ==
    SortDesc([i \in 1..Len(pois) |-> Update(pois[i], [priority_score |-> Score(pois[i])])])

\* a loader that remembers no identity
ExistingIdsNone(recs) == {}

\* existing_ids = {p['osm_id'] for p in existing_data} (line 86)
ExistingIds(recs) == {recs[i].osm_id : i \in 1..Len(recs)}

\* a loader that starts from an empty list
LoadExistingFresh(recs) == <<>>

\* enriched_pois = existing_data (line 85)
LoadExisting(recs) == recs

\* ------------------------------------------------------- backend responses
\* The text of the backend's 'response' field, as tokens: an opening brace, a
\* closing brace and anything else ("t": prose, or a key/value pair).
Tokens == {"{", "}", "t"}

Contents == UNION {[1..n -> Tokens] : n \in 0..MaxContent}

\* kind "exception": requests.post raised (timeout, connection refused);
\* body "notjson": response.json() raises or has no 'response' key.
Responses ==
    {[kind |-> "exception", status |-> 0, body |-> "none", content |-> <<>>]}
    \cup {[kind |-> "http", status |-> s, body |-> "none", content |-> <<>>] :
            s \in {500, 404}}
    \cup {[kind |-> "http", status |-> 200, body |-> "notjson", content |-> <<>>]}
    \cup {[kind |-> "http", status |-> 200, body |-> "json", content |-> c] :
            c \in Contents}

\* str.find / str.rfind: 0-based index, -1 when absent
Find(s, tok) ==
    IF \E i \in 1..Len(s) : s[i] = tok
    THEN (CHOOSE i \in 1..Len(s) : s[i] = tok /\ \A j \in 1..(i - 1) : s[j] # tok) - 1
    ELSE -1

RFind(s, tok) ==
    IF \E i \in 1..Len(s) : s[i] = tok
    THEN (CHOOSE i \in 1..Len(s) : s[i] = tok /\ \A j \in (i + 1)..Len(s) : s[j] # tok) - 1
    ELSE -1

\* content[start:end] for 0 <= start
Slice(s, start, end) == SubSeq(s, start + 1, end)

\* json.loads succeeds on an object: one opening brace, content without
\* braces, one closing brace
JsonValid(span) ==
    /\ Len(span) >= 2
    /\ span[1] = "{"
    /\ span[Len(span)] = "}"
    /\ \A i \in 2..(Len(span) - 1) : span[i] = "t"

\* the dict json.loads returns
JsonLoads(span) ==
    IF \E i \in 1..Len(span) : span[i] = "t"
    THEN [description |-> <<"model text">>]
    ELSE <<>>

\* price_map.get(category, 2) (lines 198-204)
FallbackPrice(category) ==
    CASE category \in {"museum", "gallery", "cafe"} -> 1
      [] category \in {"attraction", "restaurant", "bar"} -> 2
      [] category = "hotel" -> 3
      [] category \in {"viewpoint", "park", "historic", "monument", "memorial"} -> 0
      [] OTHER -> 2

\* AIEnricher._generate_fallback_enrichment
GenerateFallbackEnrichment(poi, city_name) ==
    LET category == Get(poi, "category", "place")
    IN [description |-> <<"A wonderful ", category, " in ", city_name, ".">>,
        duration_min |-> 60,
        best_time |-> "Morning",
        best_time_reason |-> "Good time to visit",
        personas |-> [Culture |-> 80, Relax |-> 50],
        price_level |-> FallbackPrice(category),
        tips |-> <<"Check opening hours before visiting">>,
        what_to_expect |-> <<"An interesting ", category, " experience">>,
        is_popular |-> FALSE]

\* _enrich_poi without its fallback: a failed call yields nothing (the record
\* is dropped)
EnrichPoiDropsOnFailure(poi, city_name, resp) ==
    IF resp.kind = "http" /\ resp.status = 200 /\ resp.body = "json"
       /\ Find(resp.content, "{") # -1
       /\ JsonValid(Slice(resp.content, Find(resp.content, "{"), RFind(resp.content, "}") + 1))
    THEN JsonLoads(Slice(resp.content, Find(resp.content, "{"), RFind(resp.content, "}") + 1))
    ELSE <<>>

\* AIEnricher._enrich_poi (lines 162-191): the dict it returns
EnrichPoi(poi, city_name, resp) ==
    IF resp.kind = "exception" THEN GenerateFallbackEnrichment(poi, city_name)
    ELSE IF resp.status = 200
    THEN IF resp.body # "json" THEN GenerateFallbackEnrichment(poi, city_name)
         ELSE LET content == resp.content
                  start == Find(content, "{")
                  end == RFind(content, "}") + 1
              IN IF start # -1 /\ end # -1
                 THEN IF JsonValid(Slice(content, start, end))
                      THEN SetDefault(SetDefault(SetDefault(SetDefault(SetDefault(
                               JsonLoads(Slice(content, start, end)),
                               "best_time_reason", "Good time to visit"),
                               "price_level", 2),
                               "tips", <<>>),
                               "what_to_expect", <<"A memorable visit">>),
                               "is_popular", FALSE)
                      ELSE GenerateFallbackEnrichment(poi, city_name)
                 ELSE GenerateFallbackEnrichment(poi, city_name)
    ELSE GenerateFallbackEnrichment(poi, city_name)

\* What the backend did, as the history records it: "exception" (timeout or
\* network error), "status" (non-200), "envelope" (body without a JSON
\* 'response' field), "noobject" (200, text holding no well-formed {...}
\* object anywhere), "object" (200, text holding one).
HasObject(content) ==
    \E i \in 1..Len(content) : \E j \in i..Len(content) :
        JsonValid(SubSeq(content, i, j))

ResponseClass(resp) ==
    IF resp.kind = "exception" THEN "exception"
    ELSE IF resp.status # 200 THEN "status"
    ELSE IF resp.body # "json" THEN "envelope"
    ELSE IF HasObject(resp.content) THEN "object"
    ELSE "noobject"


\* --------------------------------------------- side inputs of the Gold layer
\* monitoring/app.py, manual_poi_form (lines 71-100).  The module never
\* imports json: with an existing file json.load raises NameError before any
\* write; without one, open(..., 'w') creates the file empty and json.dump
\* raises NameError, leaving it empty.
AddManualPoi(m_name) ==
    /\ pc = "idle"
    /\ m_name # ""
    /\ ~manualFile.exists
    /\ manualFile' = Truncated
    /\ UNCHANGED <<today, silver, csvFile, gold, runVars, prev, harvestVars, stageVars>>

\* CSVStandardizer.process_csv (lines 21-78): new rows first, then the rows
\* already in csv_pois.json
ProcessCsv(rows) ==
    /\ pc = "idle"
    /\ CsvPois(rows, today, 1) # <<>>
    /\ Len(CsvPois(rows, today, 1)) + Len(csvFile.recs) <= MaxCsv
    /\ csvFile' = FileOf(CsvPois(rows, today, 1) \o csvFile.recs)
    /\ prev' = "none"
    /\ UNCHANGED <<today, silver, manualFile, gold, runVars, harvestVars, stageVars>>

\* midnight passes: strftime('%Y%m%d') changes.  Days are only compared for
\* equality (in osm_id), so a day without an upload, before or after, is not
\* counted.
AdvanceDay ==
    /\ pc = "idle"
    /\ \E i \in 1..Len(csvFile.recs) : csvFile.recs[i].osm_id[2] = today
    /\ Len(csvFile.recs) < MaxCsv
    /\ today' = today + 1
    /\ UNCHANGED <<silver, csvFile, manualFile, gold, runVars, prev, harvestVars, stageVars>>

\* ------------------------------------------------- AIEnricher.process_city
\* lines 33-66: the Silver list with the manual and the CSV records appended
\* (a file that does not parse is logged and skipped)
MergedPois ==
    silver.recs
    \o (IF manualFile.exists /\ manualFile.valid THEN ForceManual(manualFile.recs) ELSE <<>>)
    \o (IF csvFile.exists /\ csvFile.valid THEN ForceManual(csvFile.recs) ELSE <<>>)

\* no process_city is running: its locals do not exist
NoRun ==
    /\ limit' = 0
    /\ prioritized' = <<>>
    /\ idx' = 0
    /\ count' = 0
    /\ enriched_pois' = <<>>
    /\ existing_ids' = {}
    /\ completed' = {}
    /\ goldAtStart' = <<>>
    /\ calls' = <<>>

\* lines 22-87: everything before the loop.  No Silver file: return False.
\* A Gold file that does not parse: json.load raises out of process_city.
StartRun(lim) ==
    /\ pc = "idle"
    /\ IF ~silver.exists \/ (gold.exists /\ ~gold.valid)
       THEN /\ pc' = "idle"
            /\ prev' = "none"
            /\ NoRun
       ELSE /\ pc' = "loop"
            /\ limit' = lim
            /\ prioritized' = PrioritizePois(MergedPois)
            /\ idx' = 1
            /\ count' = 0
            /\ enriched_pois' = LoadExisting(gold.recs)
            /\ existing_ids' = ExistingIds(gold.recs)
            /\ completed' = {}
            /\ goldAtStart' = gold.recs
            /\ calls' = <<>>
            /\ UNCHANGED prev
    /\ UNCHANGED <<fileVars, harvestVars, stageVars>>

\* lines 89-94: a record already in Gold is passed over
SkipExisting ==
    /\ pc = "loop"
    /\ idx <= Len(prioritized)
    /\ count < limit
    /\ prioritized[idx].osm_id \in existing_ids
    /\ idx' = idx + 1
    /\ UNCHANGED <<fileVars, pc, limit, prioritized, count, enriched_pois, existing_ids,
                   completed, goldAtStart, calls, prev, harvestVars, stageVars>>

\* lines 96-105: the backend call for one record and the append in memory
\* (priority_score < 0 never holds: _prioritize_pois set it to 0..100)
CallBackend(resp) ==
    /\ pc = "loop"
    /\ idx <= Len(prioritized)
    /\ count < limit
    /\ prioritized[idx].osm_id \notin existing_ids
    /\ prioritized[idx].priority_score >= 0
    /\ calls' = Append(calls, [idx |-> idx, outcome |-> ResponseClass(resp)])
    /\ LET enriched_data == EnrichPoi(prioritized[idx], CityName, resp)
       IN IF DOMAIN enriched_data # {}
          THEN /\ enriched_pois' = Append(enriched_pois, Update(prioritized[idx], enriched_data))
               /\ count' = count + 1
               /\ pc' = "open"
               /\ UNCHANGED idx
          ELSE /\ idx' = idx + 1
               /\ UNCHANGED <<enriched_pois, count, pc>>
    /\ UNCHANGED <<fileVars, limit, prioritized, existing_ids, completed, goldAtStart,
                   prev, harvestVars, stageVars>>

\* line 108: open(existing_gold_file, 'w') truncates the file
OpenGold ==
    /\ pc = "open"
    /\ gold' = Truncated
    /\ pc' = "dump"
    /\ UNCHANGED <<today, silver, csvFile, manualFile, limit, prioritized, idx, count,
                   enriched_pois, existing_ids, completed, goldAtStart, calls, prev,
                   harvestVars, stageVars>>

\* line 109 and the end of the with block: the whole list is written
DumpGold ==
    /\ pc = "dump"
    /\ gold' = FileOf(enriched_pois)
    /\ pc' = "loop"
    /\ idx' = idx + 1
    /\ UNCHANGED <<today, silver, csvFile, manualFile, limit, prioritized, count,
                   enriched_pois, existing_ids, completed, goldAtStart, calls, prev,
                   harvestVars, stageVars>>

\* lines 89-91 and 111-112: the loop ends, process_city returns True
FinishRun ==
    /\ pc = "loop"
    /\ (idx > Len(prioritized) \/ count >= limit)
    /\ pc' = "done"
    /\ UNCHANGED <<fileVars, limit, prioritized, idx, count, enriched_pois, existing_ids,
                   completed, goldAtStart, calls, prev, harvestVars, stageVars>>

\* the caller goes on (Orchestrator.run_gold_layer, lines 73-74); the history
\* keeps how the finished run ended
ReturnRun ==
    /\ pc = "done"
    /\ pc' = "idle"
    /\ prev' = IF count < limit THEN "short" ELSE "capped"
    /\ NoRun
    /\ UNCHANGED <<fileVars, harvestVars, stageVars>>

\* the process is killed during a run (sequential or parallel); memory is
\* lost, files stay as they are on disk
Crash ==
    /\ pc \in {"loop", "open", "dump", "p_pool", "p_dump"}
    /\ pc' = "idle"
    /\ prev' = "none"
    /\ NoRun
    /\ UNCHANGED <<fileVars, harvestVars, stageVars>>

\* ------------------------------------------ ParallelAIEnricher.process_city
\* ParallelAIEnricher._mock_enrich
MockEnrich(poi) ==
    Update(poi, [description |-> Get(poi, "description",
                                     <<"A wonderful place in ",
                                       Get(poi, "city_name", "the city"), ".">>),
                 duration_min |-> 60,
                 best_time |-> "Morning",
                 personas |-> [Culture |-> 80, Relax |-> 50]])

\* ParallelAIEnricher._enrich_poi (lines 102-129): the POI it returns, <<>>
\* for None (the function ends without a return statement)
ParallelEnrichPoi(poi, resp) ==
    IF resp.kind = "exception" THEN MockEnrich(poi)
    ELSE IF resp.status = 200
    THEN IF resp.body # "json" THEN MockEnrich(poi)
         ELSE LET content == resp.content
                  start == Find(content, "{")
                  end == RFind(content, "}") + 1
              IN IF start # -1 /\ end > start
                 THEN IF JsonValid(Slice(content, start, end))
                      THEN LET enrichment == JsonLoads(Slice(content, start, end))
                           IN Update(poi,
                                [description |-> Get(enrichment, "description",
                                                     Get(poi, "description", <<>>)),
                                 duration_min |-> Get(enrichment, "duration_min", 60),
                                 best_time |-> Get(enrichment, "best_time", "Anytime"),
                                 personas |-> Get(enrichment, "personas",
                                                  [Culture |-> 50, Relax |-> 50])])
                      ELSE MockEnrich(poi)
                 ELSE <<>>
    ELSE MockEnrich(poi)

\* to_enrich (lines 46-55): not in Gold, of the tier, cut to the limit
RECURSIVE SelectSeq2(_, _)
SelectSeq2(recs, ids) ==
    IF recs = <<>> THEN <<>>
    ELSE (IF Get(Head(recs), "osm_id", <<>>) \notin ids THEN <<Head(recs)>> ELSE <<>>)
         \o SelectSeq2(Tail(recs), ids)

RECURSIVE OfTier(_, _)
OfTier(recs, tier) ==
    IF recs = <<>> THEN <<>>
    ELSE (IF Get(Head(recs), "priority_tier", "") = tier THEN <<Head(recs)>> ELSE <<>>)
         \o OfTier(Tail(recs), tier)

ToEnrich(pois, existing, tier, lim) ==
    LET fresh == SelectSeq2(pois, ExistingIds(existing))
        tiered == IF tier # "all" THEN OfTier(fresh, tier) ELSE fresh
    IN IF lim # 0 THEN SubSeq(tiered, 1, IF lim < Len(tiered) THEN lim ELSE Len(tiered))
       ELSE tiered

\* lines 28-62: up to the submission of every task to the pool.  lim = 0
\* stands for limit=None (both are falsy in `if limit:`).
StartParallel(tier, lim) ==
    /\ pc = "idle"
    /\ IF ~silver.exists \/ (gold.exists /\ ~gold.valid)
       THEN /\ pc' = "idle"
            /\ NoRun
       ELSE /\ pc' = "p_pool"
            /\ limit' = lim
            /\ prioritized' = ToEnrich(silver.recs, gold.recs, tier, lim)
            /\ idx' = 0
            /\ count' = 0
            /\ enriched_pois' = <<>>
            /\ existing_ids' = ExistingIds(gold.recs)
            /\ completed' = {}
            /\ goldAtStart' = gold.recs
            /\ calls' = <<>>
    /\ prev' = "none"
    /\ UNCHANGED <<fileVars, harvestVars, stageVars>>

\* the pool runs its tasks in submission order, max_workers at a time: task j
\* is running when fewer than max_workers earlier tasks are unfinished
Running(j) ==
    /\ j \in 1..Len(prioritized)
    /\ j \notin completed
    /\ Cardinality({i \in 1..(j - 1) : i \notin completed}) < MaxWorkers

\* lines 64-71: one task finishes, as_completed yields it, its result is kept
CompleteTask(j, resp) ==
    /\ pc = "p_pool"
    /\ Running(j)
    /\ completed' = completed \cup {j}
    /\ calls' = Append(calls, [idx |-> j, outcome |-> ResponseClass(resp)])
    /\ LET enriched_poi == ParallelEnrichPoi(prioritized[j], resp)
       IN enriched_pois' = IF DOMAIN enriched_poi # {}
                           THEN Append(enriched_pois, enriched_poi)
                           ELSE enriched_pois
    /\ UNCHANGED <<fileVars, pc, limit, prioritized, idx, count, existing_ids,
                   goldAtStart, prev, harvestVars, stageVars>>

\* lines 73-78: the pool has joined; open(gold_file, 'w') truncates the file
OpenGoldParallel ==
    /\ pc = "p_pool"
    /\ completed = 1..Len(prioritized)
    /\ gold' = Truncated
    /\ pc' = "p_dump"
    /\ UNCHANGED <<today, silver, csvFile, manualFile, limit, prioritized, idx, count,
                   enriched_pois, existing_ids, completed, goldAtStart, calls, prev,
                   harvestVars, stageVars>>

\* lines 74 and 79: all_pois = existing_pois + enriched_pois is written
DumpGoldParallel ==
    /\ pc = "p_dump"
    /\ gold' = FileOf(goldAtStart \o enriched_pois)
    /\ pc' = "p_done"
    /\ UNCHANGED <<today, silver, csvFile, manualFile, limit, prioritized, idx, count,
                   enriched_pois, existing_ids, completed, goldAtStart, calls, prev,
                   harvestVars, stageVars>>

\* line 82: return True
ReturnParallel ==
    /\ pc = "p_done"
    /\ pc' = "idle"
    /\ NoRun
    /\ UNCHANGED <<fileVars, prev, harvestVars, stageVars>>

\* ------------------------------------------------------ archive Harvester
\* Degrees are counted in units of half a tile step: harvest_city's default
\* step of 0.05 degrees is 2.
Step == 2
MaxRetries == 5
InitialBackoff == 5
PoliteDelay == 2

Min(a, b) == IF a < b THEN a ELSE b

\* Python floats.  A coordinate is a float: a binary significand of a fixed
\* number of bits (53 in CPython, MantissaBits here) times a power of two; the
\* values are counted in units small enough that every one of them is a
\* natural number.
RECURSIVE BitLen(_)
BitLen(x) == IF x = 0 THEN 0 ELSE 1 + BitLen(x \div 2)

\* the float nearest to the real number x, ties to the even significand
FRound(x) ==
    IF BitLen(x) <= MantissaBits THEN x
    ELSE LET u == 2 ^ (BitLen(x) - MantissaBits)
             q == x \div u
             r == x % u
         IN IF 2 * r > u \/ (2 * r = u /\ q % 2 = 1) THEN (q + 1) * u ELSE q * u

\* a + b on floats: the exact sum, rounded (lines 39, 40, 48, 49)
FAdd(a, b) == FRound(a + b)

\* Harvester.generate_tiles: the inner and the outer while loop
RECURSIVE TilesOfRow(_, _, _, _)
TilesOfRow(box, step, lat, lon) ==
    IF lon < box.east
    THEN <<[south |-> lat, west |-> lon,
            north |-> Min(FAdd(lat, step), box.north),
            east |-> Min(FAdd(lon, step), box.east)]>>
         \o TilesOfRow(box, step, lat, FAdd(lon, step))
    ELSE <<>>

RECURSIVE TilesFrom(_, _, _)
TilesFrom(box, step, lat) ==
    IF lat < box.north
    THEN TilesOfRow(box, step, lat, box.west) \o TilesFrom(box, step, FAdd(lat, step))
    ELSE <<>>

GenerateTiles(box, step) == TilesFrom(box, step, box.south)

Bboxes ==
    {[south |-> 0, west |-> 0, north |-> n, east |-> e] :
        n \in 1..MaxNorth, e \in 1..MaxEast}

\* what the Overpass API answers: a status with a body, or no answer at all
\* (requests.RequestException)
TileResponses ==
    {[kind |-> "net", status |-> 0, body |-> "none"]}
    \cup {[kind |-> "http", status |-> 200, body |-> b] :
            b \in {"elements", "noelements", "notjson"}}
    \cup {[kind |-> "http", status |-> st, body |-> "none"] :
            st \in {429, 500, 503, 404}}

\* the branch of fetch_tile's loop body a response takes (lines 107-142)
TileClass(resp) ==
    IF resp.kind = "net" THEN "net"
    ELSE IF resp.status = 200
         THEN (IF resp.body = "elements" THEN "ok" ELSE "invalid")
    ELSE IF resp.status = 429 THEN "429"
    ELSE IF resp.status >= 500 THEN "5xx"
    ELSE "other"

\* the backoff after a server error (line 130-132) and after a network error
\* (lines 141-142): unchanged
BackoffAfterError(b) == b

\* a rate-limit branch that keeps the delay
BackoffAfter429Kept(b) == b

\* the backoff after a rate limit (line 125)
BackoffAfter429(b) == b * 2

\* a fetch that ignores the files on disk
TileIsPresentNever(i) == FALSE

\* fetch_tile, lines 91-95: a tile whose file exists is not fetched again
TileIsPresent(i) == i \in tileFiles

\* a harvest that counts every tile it tried
CountEveryTile(c, ok) == c + 1

\* harvest_city, lines 160-161: if self.fetch_tile(...): success_count += 1
CountSuccess(c, ok) == IF ok THEN c + 1 ELSE c

\* harvest_city, lines 149-157
StartHarvest ==
    /\ h_pc = "idle"
    /\ h_pc' = "tile"
    /\ tiles' = GenerateTiles(bbox, Step)
    /\ tile_i' = 0
    /\ success_count' = 0
    /\ requested' = FALSE
    /\ allPresentAtStart' = \A i \in 0..(Len(GenerateTiles(bbox, Step)) - 1) : i \in tileFiles
    /\ fetched' = "none"
    /\ retries' = 0
    /\ backoff' = 0
    /\ nreq' = 0
    /\ seen' = {}
    /\ sleeps' = <<>>
    /\ UNCHANGED <<enrichVars, stageVars, bbox, tileFiles>>

\* harvest_city line 158-161 entering fetch_tile, lines 91-101
BeginTile ==
    /\ h_pc = "tile"
    /\ tile_i < Len(tiles)
    /\ nreq' = 0
    /\ seen' = {}
    /\ sleeps' = <<>>
    /\ retries' = 0
    /\ IF TileIsPresent(tile_i)
       THEN /\ fetched' = "true"
            /\ success_count' = CountSuccess(success_count, TRUE)
            /\ tile_i' = tile_i + 1
            /\ backoff' = 0
            /\ UNCHANGED h_pc
       ELSE /\ h_pc' = "fetch"
            /\ backoff' = InitialBackoff
            /\ UNCHANGED <<fetched, success_count, tile_i>>
    /\ UNCHANGED <<enrichVars, stageVars, bbox, tileFiles, tiles, requested, allPresentAtStart>>

\* one pass of the while loop of fetch_tile (lines 103-142)
Request(resp) ==
    /\ h_pc = "fetch"
    /\ retries < MaxRetries
    /\ nreq < MaxRequests
    /\ nreq' = nreq + 1
    /\ seen' = seen \cup {TileClass(resp)}
    /\ requested' = TRUE
    /\ CASE TileClass(resp) = "ok" ->
              /\ tileFiles' = tileFiles \cup {tile_i}
              /\ sleeps' = Append(sleeps, PoliteDelay)
              /\ fetched' = "true"
              /\ success_count' = CountSuccess(success_count, TRUE)
              /\ tile_i' = tile_i + 1
              /\ h_pc' = "tile"
              /\ UNCHANGED <<retries, backoff>>
         [] TileClass(resp) = "invalid" ->
              UNCHANGED <<tileFiles, sleeps, fetched, success_count, tile_i, h_pc,
                          retries, backoff>>
         [] TileClass(resp) = "429" ->
              /\ sleeps' = Append(sleeps, backoff)
              /\ backoff' = BackoffAfter429(backoff)
              /\ retries' = retries + 1
              /\ UNCHANGED <<tileFiles, fetched, success_count, tile_i, h_pc>>
         [] TileClass(resp) \in {"5xx", "net"} ->
              /\ sleeps' = Append(sleeps, backoff)
              /\ backoff' = BackoffAfterError(backoff)
              /\ retries' = retries + 1
              /\ UNCHANGED <<tileFiles, fetched, success_count, tile_i, h_pc>>
         [] TileClass(resp) = "other" ->
              /\ fetched' = "false"
              /\ success_count' = CountSuccess(success_count, FALSE)
              /\ tile_i' = tile_i + 1
              /\ h_pc' = "tile"
              /\ UNCHANGED <<tileFiles, sleeps, retries, backoff>>
    /\ UNCHANGED <<enrichVars, stageVars, bbox, tiles, allPresentAtStart>>

\* lines 103 and 144-145: the retries are used up, fetch_tile returns False
GiveUp ==
    /\ h_pc = "fetch"
    /\ retries >= MaxRetries
    /\ fetched' = "false"
    /\ success_count' = CountSuccess(success_count, FALSE)
    /\ tile_i' = tile_i + 1
    /\ h_pc' = "tile"
    /\ UNCHANGED <<enrichVars, stageVars, bbox, tileFiles, tiles, fetchVars,
                   requested, allPresentAtStart>>

\* harvest_city line 167: every tile was tried
FinishHarvest ==
    /\ h_pc = "tile"
    /\ tile_i = Len(tiles)
    /\ h_pc' = "done"
    /\ UNCHANGED <<enrichVars, stageVars, bbox, tileFiles, tiles, tile_i, success_count, fetchVars,
                   fetched, requested, allPresentAtStart>>

\* harvest_city has returned; it may be called again
ReturnHarvest ==
    /\ h_pc = "done"
    /\ h_pc' = "idle"
    /\ UNCHANGED <<enrichVars, stageVars, bbox, tileFiles, tiles, tile_i, success_count, fetchVars,
                   fetched, requested, allPresentAtStart>>

\* ------------------------------------------------------------ specifications
EnrichStart ==
    /\ today = 1
    /\ csvFile = Absent
    /\ manualFile = Absent
    /\ gold = Absent
    /\ pc = "idle"
    /\ limit = 0
    /\ prioritized = <<>>
    /\ idx = 0
    /\ count = 0
    /\ enriched_pois = <<>>
    /\ existing_ids = {}
    /\ completed = {}
    /\ goldAtStart = <<>>
    /\ calls = <<>>
    /\ prev = "none"

HarvestStart ==
    /\ tileFiles = {}
    /\ h_pc = "idle"
    /\ tiles = <<>>
    /\ tile_i = 0
    /\ success_count = 0
    /\ retries = 0
    /\ backoff = 0
    /\ nreq = 0
    /\ seen = {}
    /\ sleeps = <<>>
    /\ fetched = "none"
    /\ requested = FALSE
    /\ allPresentAtStart = FALSE

\* no generate_tiles call is being looked at
TilingStart ==
    /\ t_pc = "idle"
    /\ t_bbox = [south |-> 0, west |-> 0, north |-> 0, east |-> 0]
    /\ t_step = 0
    /\ t_tiles = <<>>

\* no extract_city has run
ExtractStart ==
    /\ x_pc = "idle"
    /\ x_i = 0
    /\ x_depth = 0
    /\ x_files = {}
    /\ x_result = "none"
    /\ x_nreq = 0
    /\ x_limited = {}

\* no load_gold_layer has run; the activities table is empty
LoadStart ==
    /\ l_pc = "idle"
    /\ l_n = 0
    /\ l_i = 0
    /\ l_table = <<>>
    /\ l_reported = -1
    /\ l_attempts = <<>>
    /\ l_loads = 0
    /\ l_first = <<>>

\* no run_pipeline has started
PipelineStart ==
    /\ p_pc = "idle"
    /\ p_city = 0
    /\ p_configured = {}
    /\ p_bronze = {}
    /\ p_silver = {}
    /\ p_gold = {}
    /\ p_log = <<>>
    /\ p_visited = {}

\* no Bronze data and no cleaning yet
CleanStart ==
    /\ c_bronze = "nodir"
    /\ c_tiles = <<>>
    /\ c_result = "none"
    /\ c_runs = 0
    /\ c_before = Absent

\* no function applied on its own
CallStart ==
    /\ u_fn = "none"
    /\ u_in = <<>>
    /\ u_out = <<>>

StageStart ==
    TilingStart /\ ExtractStart /\ LoadStart /\ PipelineStart /\ CleanStart /\ CallStart

\* The Gold stage of one city: the Silver layer has been written or not
Init ==
    /\ EnrichStart
    /\ silver \in {Absent, FileOf(SilverRecs(MaxSilver))}
    /\ HarvestStart
    /\ bbox = [south |-> 0, west |-> 0, north |-> 1, east |-> 1]
    /\ StageStart

FailingResponses == {r \in Responses : ResponseClass(r) # "object"}

Next ==
    \/ \E m_name \in {"", "Old Fort"} : AddManualPoi(m_name)
    \/ \E rows \in CsvRowsInputs : ProcessCsv(rows)
    \/ AdvanceDay
    \/ \E lim \in 1..MaxLimit : StartRun(lim)
    \/ SkipExisting
    \/ \E resp \in Responses : CallBackend(resp)
    \/ OpenGold
    \/ DumpGold
    \/ FinishRun
    \/ ReturnRun
    \/ \E tier \in {"all", "essential"}, lim \in 0..MaxLimit : StartParallel(tier, lim)
    \/ \E j \in 1..MaxSilver, resp \in Responses : CompleteTask(j, resp)
    \/ OpenGoldParallel
    \/ DumpGoldParallel
    \/ ReturnParallel
    \/ Crash

Spec == Init /\ [][Next]_vars

\* The sequential Gold stage against a backend that always fails
NextFailing ==
    \/ \E rows \in CsvRowsInputs : ProcessCsv(rows)
    \/ AdvanceDay
    \/ \E lim \in 1..MaxLimit : StartRun(lim)
    \/ SkipExisting
    \/ \E resp \in FailingResponses : CallBackend(resp)
    \/ OpenGold
    \/ DumpGold
    \/ FinishRun
    \/ ReturnRun
    \/ Crash

SpecFailing == Init /\ [][NextFailing]_vars

\* The tile harvest of one city
InitHarvest ==
    /\ EnrichStart
    /\ silver = Absent
    /\ HarvestStart
    /\ bbox \in Bboxes
    /\ StageStart

NextHarvest ==
    \/ StartHarvest
    \/ BeginTile
    \/ \E resp \in TileResponses : Request(resp)
    \/ GiveUp
    \/ FinishHarvest
    \/ ReturnHarvest

SpecHarvest == InitHarvest /\ [][NextHarvest]_vars

\* generate_tiles as a function of its arguments
IsFloat(x) == FRound(x) = x

\* the while loops end: adding the step moves every float below the limit
Advances(upto, step) ==
    \A x \in 0..upto : (IsFloat(x) /\ x < upto) => FAdd(x, step) > x

TilingInputs ==
    {[box |-> [south |-> s, west |-> 0, north |-> n, east |-> e], step |-> st] :
        s \in {x \in 0..1 : IsFloat(x)},
        n \in {x \in 1..MaxCoord : IsFloat(x)},
        e \in {x \in 1..MaxCoord : IsFloat(x)},
        st \in {x \in 1..MaxStep : IsFloat(x)}}

InitTiling ==
    /\ EnrichStart
    /\ silver = Absent
    /\ HarvestStart
    /\ CleanStart
    /\ CallStart
    /\ bbox = [south |-> 0, west |-> 0, north |-> 1, east |-> 1]
    /\ t_pc = "input"
    /\ \E inp \in TilingInputs :
          /\ inp.box.south < inp.box.north
          /\ Advances(inp.box.north, inp.step)
          /\ Advances(inp.box.east, inp.step)
          /\ t_bbox = inp.box
          /\ t_step = inp.step
    /\ t_tiles = <<>>
    /\ ExtractStart
    /\ LoadStart
    /\ PipelineStart

CallGenerateTiles ==
    /\ t_pc = "input"
    /\ t_tiles' = GenerateTiles(t_bbox, t_step)
    /\ t_pc' = "done"
    /\ UNCHANGED <<enrichVars, harvestVars, cleanVars, callVars, t_bbox, t_step, extractVars, loadVars,
                   pipelineVars>>

NextTiling == CallGenerateTiles

SpecTiling == InitTiling /\ [][NextTiling]_vars

\* ------------------------------------------------- OSMExtractor (Bronze layer)
\* _generate_tiles: range(2) x range(2)
GridSide == 2

ExtractTileCount == GridSide * GridSide

\* requests.post of _fetch_tile: no answer (any exception), or a status;
\* a 200 carries a JSON document that is truthy ("data"), falsy ("empty": {}
\* or []) or no JSON at all
ExtractResponses ==
    {[kind |-> "exception", status |-> 0, body |-> "none"]}
    \cup {[kind |-> "http", status |-> 200, body |-> b] : b \in {"data", "empty", "notjson"}}
    \cup {[kind |-> "http", status |-> st, body |-> "none"] : st \in {429, 500, 404}}

\* the interpreter ends the recursion at every depth
RecursionNeverFails(depth) == FALSE

\* line 123 at the interpreter's recursion limit: the nested call raises
\* RecursionError, which is an Exception: line 127 catches it, None is returned
RecursionFails(depth) == depth >= RecursionLimit

\* extract_city, lines 33-51; the configuration is there or not
StartExtract(configured) ==
    /\ x_pc = "idle"
    /\ x_nreq' = 0
    /\ x_limited' = {}
    /\ x_depth' = 0
    /\ x_i' = 0
    /\ x_files' = {}
    /\ IF configured
       THEN x_pc' = "fetch" /\ x_result' = "none"
       ELSE x_pc' = "idle" /\ x_result' = "false"
    /\ UNCHANGED <<enrichVars, harvestVars, cleanVars, callVars, tilingVars, loadVars, pipelineVars>>

\* _fetch_tile returns to extract_city with data (truthy or not) or None:
\* lines 53-65, then the next tile
FetchReturns(saved, limited) ==
    /\ x_files' = IF saved THEN x_files \cup {x_i} ELSE x_files
    /\ x_limited' = IF limited THEN x_limited \cup {x_i} ELSE x_limited
    /\ x_i' = x_i + 1
    /\ x_depth' = 0
    /\ UNCHANGED <<x_pc, x_result>>

\* one _fetch_tile call (lines 116-129) issues its request
ExtractRequest(resp) ==
    /\ x_pc = "fetch"
    /\ x_i < ExtractTileCount
    /\ x_nreq' = IF x_depth = 0 THEN 1 ELSE x_nreq + 1
    /\ IF resp.kind = "exception" THEN FetchReturns(FALSE, FALSE)
       ELSE IF resp.status = 200
            THEN FetchReturns(resp.body = "data", FALSE)
       ELSE IF resp.status = 429
            THEN IF RecursionFails(x_depth + 1)
                 THEN FetchReturns(FALSE, TRUE)
                 ELSE /\ x_depth' = x_depth + 1
                      /\ UNCHANGED <<x_pc, x_i, x_files, x_result, x_limited>>
       ELSE FetchReturns(FALSE, FALSE)
    /\ UNCHANGED <<enrichVars, harvestVars, cleanVars, callVars, tilingVars, loadVars, pipelineVars>>

\* lines 67-79: metadata.json, return True
FinishExtract ==
    /\ x_pc = "fetch"
    /\ x_i = ExtractTileCount
    /\ x_pc' = "done"
    /\ x_result' = "true"
    /\ UNCHANGED <<enrichVars, harvestVars, cleanVars, callVars, tilingVars, loadVars, pipelineVars, x_i, x_depth, x_files, x_nreq,
                   x_limited>>

\* the caller goes on (Orchestrator.run_bronze_layer); extract_city may be
\* called again
ReturnExtract ==
    /\ x_pc = "done"
    /\ x_pc' = "idle"
    /\ UNCHANGED <<enrichVars, harvestVars, cleanVars, callVars, tilingVars, loadVars, pipelineVars, x_i, x_depth, x_files, x_result,
                   x_nreq, x_limited>>

InitExtract ==
    /\ EnrichStart
    /\ silver = Absent
    /\ HarvestStart
    /\ bbox = [south |-> 0, west |-> 0, north |-> 1, east |-> 1]
    /\ StageStart

NextExtract ==
    \/ \E configured \in BOOLEAN : StartExtract(configured)
    \/ \E resp \in ExtractResponses : ExtractRequest(resp)
    \/ FinishExtract
    \/ ReturnExtract

SpecExtract == InitExtract /\ [][NextExtract]_vars

\* ------------------------------------------------ SupabaseLoader (Load stage)
BatchSize == 50

\* how load_gold_layer gets to the batch loop or returns before it: no Gold
\* directory (34-36), no destination_details.json or no id (42, 63, 86-88),
\* an exception while loading the destination (82-84), no pois.json (92), a
\* pois.json that cannot be read or a record without name or coordinates
\* (140-142)
LoadOutcomes == {"nogold", "nodest", "desterror", "nopois", "badpois", "ok"}

\* a loop that stops at the first failed batch
NextBatchUnlessFailed(i, ok, n) == IF ok THEN i + BatchSize ELSE n

\* for i in range(0, len(activities), batch_size): the except clause of line
\* 136 only logs, the loop goes on
NextBatch(i, ok, n) == i + BatchSize

\* table('activities').insert(batch): every row of the batch is added
InsertBatch(table, first, last) ==
    [k \in DOMAIN table |-> IF first <= k /\ k <= last THEN table[k] + 1 ELSE table[k]]

\* lines 31-128: everything before the batch loop
StartLoad(outcome) ==
    /\ l_pc = "idle"
    /\ l_loads < MaxLoads
    /\ l_attempts' = <<>>
    /\ l_reported' = -1
    /\ l_i' = 0
    /\ l_pc' = IF outcome = "ok" THEN "batch" ELSE "idle"
    /\ UNCHANGED <<enrichVars, harvestVars, cleanVars, callVars, tilingVars, extractVars, pipelineVars, l_n, l_table,
                   l_loads, l_first>>

\* lines 131-137: one batch, inserted or refused
LoadBatch(ok) ==
    /\ l_pc = "batch"
    /\ l_i < l_n
    /\ LET first == l_i + 1
           last == Min(l_i + BatchSize, l_n)
       IN /\ l_table' = IF ok THEN InsertBatch(l_table, first, last) ELSE l_table
          /\ l_attempts' = Append(l_attempts, [first |-> first, last |-> last, ok |-> ok])
    /\ l_i' = NextBatch(l_i, ok, l_n)
    /\ UNCHANGED <<enrichVars, harvestVars, cleanVars, callVars, tilingVars, extractVars, pipelineVars, l_pc, l_n,
                   l_reported, l_loads, l_first>>

\* line 139: the loop is over, the count is logged
FinishLoad ==
    /\ l_pc = "batch"
    /\ l_i >= l_n
    /\ l_pc' = "done"
    /\ l_reported' = l_n
    /\ l_loads' = l_loads + 1
    /\ l_first' = IF l_loads = 0 THEN l_table ELSE l_first
    /\ UNCHANGED <<enrichVars, harvestVars, cleanVars, callVars, tilingVars, extractVars, pipelineVars, l_n, l_i, l_table,
                   l_attempts>>

\* load_gold_layer has returned (Orchestrator.run_load_layer); it may be
\* called again, the Gold layer unchanged
ReturnLoad ==
    /\ l_pc = "done"
    /\ l_pc' = "idle"
    /\ UNCHANGED <<enrichVars, harvestVars, cleanVars, callVars, tilingVars, extractVars, pipelineVars, l_n, l_i, l_table,
                   l_reported, l_attempts, l_loads, l_first>>

\* a city whose Gold pois.json holds l_n records, an empty activities table
InitLoad ==
    /\ EnrichStart
    /\ silver = Absent
    /\ HarvestStart
    /\ CleanStart
    /\ CallStart
    /\ bbox = [south |-> 0, west |-> 0, north |-> 1, east |-> 1]
    /\ TilingStart
    /\ ExtractStart
    /\ PipelineStart
    /\ l_pc = "idle"
    /\ l_n \in 0..MaxPois
    /\ l_i = 0
    /\ l_table = [k \in 1..l_n |-> 0]
    /\ l_reported = -1
    /\ l_attempts = <<>>
    /\ l_loads = 0
    /\ l_first = <<>>

NextLoad ==
    \/ \E outcome \in LoadOutcomes : StartLoad(outcome)
    \/ \E ok \in BOOLEAN : LoadBatch(ok)
    \/ FinishLoad
    \/ ReturnLoad

SpecLoad == InitLoad /\ [][NextLoad]_vars

\* ------------------------------------------- scripts/run_full_pipeline.py
\* The city list (GEORGIA_CITIES), by position
Cities == 1..MaxCities

Logged(stage, result) == Append(p_log, [stage |-> stage, result |-> result])

\* the for loop moves to the next city: after line 58, or by the continue of
\* line 62
NextCity ==
    /\ p_city' = p_city + 1
    /\ IF p_city + 1 \in Cities
       THEN /\ p_pc' = "bronze"
            /\ p_visited' = p_visited \cup {p_city + 1}
       ELSE /\ p_pc' = "finished"
            /\ UNCHANGED p_visited

\* line 33-37: the run starts with the first city
StartPipeline ==
    /\ p_pc = "idle"
    /\ p_city = 0
    /\ NextCity
    /\ p_log' = <<>>
    /\ UNCHANGED <<enrichVars, harvestVars, cleanVars, callVars, tilingVars, extractVars, loadVars,
                   p_configured, p_bronze, p_silver, p_gold>>

\* line 43-44: run_bronze_layer drops extract_city's result.  Without an
\* entry in CITIES extract_city returns False (osm_extractor.py 34-38); with
\* one it makes the harvest directory and returns True, or raises.
RunBronze(raises) ==
    /\ p_pc = "bronze"
    /\ IF p_city \notin p_configured
       THEN /\ ~raises
            /\ p_log' = Logged("bronze", "missing")
            /\ p_pc' = "silver"
            /\ UNCHANGED <<p_city, p_visited, p_bronze>>
       ELSE IF raises
            THEN /\ p_log' = <<>>
                 /\ NextCity
                 /\ p_bronze' = p_bronze \cup {p_city}
            ELSE /\ p_log' = Logged("bronze", "ok")
                 /\ p_pc' = "silver"
                 /\ p_bronze' = p_bronze \cup {p_city}
                 /\ UNCHANGED <<p_city, p_visited>>
    /\ UNCHANGED <<enrichVars, harvestVars, cleanVars, callVars, tilingVars, extractVars, loadVars,
                   p_configured, p_silver, p_gold>>

\* line 48: run_silver_layer drops process_city's result.  Without Bronze
\* data Standardizer.process_city returns False (standardizer.py 29-37);
\* with it, it writes the Silver pois.json, or raises.
RunSilver(raises) ==
    /\ p_pc = "silver"
    /\ IF p_city \notin p_bronze
       THEN /\ ~raises
            /\ p_log' = Logged("silver", "missing")
            /\ p_pc' = "gold"
            /\ UNCHANGED <<p_city, p_visited, p_silver>>
       ELSE IF raises
            THEN /\ p_log' = <<>>
                 /\ NextCity
                 /\ UNCHANGED p_silver
            ELSE /\ p_log' = Logged("silver", "ok")
                 /\ p_pc' = "gold"
                 /\ p_silver' = p_silver \cup {p_city}
                 /\ UNCHANGED <<p_city, p_visited>>
    /\ UNCHANGED <<enrichVars, harvestVars, cleanVars, callVars, tilingVars, extractVars, loadVars,
                   p_configured, p_bronze, p_gold>>

\* line 52: run_gold_layer drops both results.  AIEnricher.process_city
\* returns False without Silver data (ai_enricher.py 29-31), else makes the
\* Gold directory, or raises; then DestinationEnricher.enrich_destination
\* returns False without an entry in CITIES (destination_enricher.py 28-30),
\* else writes destination_details.json.
RunGold(raises) ==
    /\ p_pc = "gold"
    /\ IF raises
       THEN /\ p_city \in p_silver
            /\ p_log' = <<>>
            /\ NextCity
            /\ p_gold' = p_gold \cup {p_city}
       ELSE /\ p_log' = Logged("gold", IF p_city \in p_silver /\ p_city \in p_configured
                                       THEN "ok" ELSE "missing")
            /\ p_pc' = "load"
            /\ p_gold' = IF p_city \in p_silver \/ p_city \in p_configured
                          THEN p_gold \cup {p_city} ELSE p_gold
            /\ UNCHANGED <<p_city, p_visited>>
    /\ UNCHANGED <<enrichVars, harvestVars, cleanVars, callVars, tilingVars, extractVars, loadVars,
                   p_configured, p_bronze, p_silver>>

\* line 56-62: run_load_layer, the last stage.  Whether it loads, returns at
\* once (no Gold directory, supabase_loader.py 34-36) or raises (no
\* credentials, utils/database.py 24-25), the loop goes to the next city.
RunLoad ==
    /\ p_pc = "load"
    /\ p_log' = <<>>
    /\ NextCity
    /\ UNCHANGED <<enrichVars, harvestVars, cleanVars, callVars, tilingVars, extractVars, loadVars,
                   p_configured, p_bronze, p_silver, p_gold>>

\* a machine with some of the cities configured and some layers left by
\* earlier runs
InitPipeline ==
    /\ EnrichStart
    /\ silver = Absent
    /\ HarvestStart
    /\ CleanStart
    /\ CallStart
    /\ bbox = [south |-> 0, west |-> 0, north |-> 1, east |-> 1]
    /\ TilingStart
    /\ ExtractStart
    /\ LoadStart
    /\ p_pc = "idle"
    /\ p_city = 0
    /\ p_configured \in SUBSET Cities
    /\ p_bronze \in SUBSET Cities
    /\ p_silver \in SUBSET p_bronze
    /\ p_gold \in SUBSET p_silver
    /\ p_log = <<>>
    /\ p_visited = {}

NextPipeline ==
    \/ StartPipeline
    \/ \E raises \in BOOLEAN : RunBronze(raises)
    \/ \E raises \in BOOLEAN : RunSilver(raises)
    \/ \E raises \in BOOLEAN : RunGold(raises)
    \/ RunLoad

SpecPipeline == InitPipeline /\ [][NextPipeline]_vars

\* ------------------------------------------------------- NameTranslator
\* georgian_map and cyrillic_map: the Latin text of one letter
GeorgianMap(c) ==
    CASE c = "ge:an" -> <<"a">>
      [] c = "ge:ban" -> <<"b">>
      [] c = "ge:gan" -> <<"g">>
      [] c = "ge:don" -> <<"d">>
      [] c = "ge:en" -> <<"e">>
      [] c = "ge:vin" -> <<"v">>
      [] c = "ge:zen" -> <<"z">>
      [] c = "ge:tan" -> <<"t">>
      [] c = "ge:in" -> <<"i">>
      [] c = "ge:kan" -> <<"k">>
      [] c = "ge:las" -> <<"l">>
      [] c = "ge:man" -> <<"m">>
      [] c = "ge:nar" -> <<"n">>
      [] c = "ge:on" -> <<"o">>
      [] c = "ge:par" -> <<"p">>
      [] c = "ge:zhar" -> <<"z", "h">>
      [] c = "ge:rae" -> <<"r">>
      [] c = "ge:san" -> <<"s">>
      [] c = "ge:tar" -> <<"t">>
      [] c = "ge:un" -> <<"u">>
      [] c = "ge:phar" -> <<"p">>
      [] c = "ge:khar" -> <<"k">>
      [] c = "ge:ghan" -> <<"g", "h">>
      [] c = "ge:qar" -> <<"q">>
      [] c = "ge:shin" -> <<"s", "h">>
      [] c = "ge:chin" -> <<"c", "h">>
      [] c = "ge:can" -> <<"t", "s">>
      [] c = "ge:jil" -> <<"d", "z">>
      [] c = "ge:cil" -> <<"t", "s">>
      [] c = "ge:char" -> <<"c", "h">>
      [] c = "ge:xan" -> <<"k", "h">>
      [] c = "ge:jhan" -> <<"j">>
      [] c = "ge:hae" -> <<"h">>

CyrillicMap(c) ==
    CASE c = "cy:a" -> <<"a">>
      [] c = "cy:be" -> <<"b">>
      [] c = "cy:ve" -> <<"v">>
      [] c = "cy:ghe" -> <<"g">>
      [] c = "cy:de" -> <<"d">>
      [] c = "cy:ie" -> <<"e">>
      [] c = "cy:io" -> <<"y", "o">>
      [] c = "cy:zhe" -> <<"z", "h">>
      [] c = "cy:ze" -> <<"z">>
      [] c = "cy:i" -> <<"i">>
      [] c = "cy:short_i" -> <<"y">>
      [] c = "cy:ka" -> <<"k">>
      [] c = "cy:el" -> <<"l">>
      [] c = "cy:em" -> <<"m">>
      [] c = "cy:en" -> <<"n">>
      [] c = "cy:o" -> <<"o">>
      [] c = "cy:pe" -> <<"p">>
      [] c = "cy:er" -> <<"r">>
      [] c = "cy:es" -> <<"s">>
      [] c = "cy:te" -> <<"t">>
      [] c = "cy:u" -> <<"u">>
      [] c = "cy:ef" -> <<"f">>
      [] c = "cy:ha" -> <<"k", "h">>
      [] c = "cy:tse" -> <<"t", "s">>
      [] c = "cy:che" -> <<"c", "h">>
      [] c = "cy:sha" -> <<"s", "h">>
      [] c = "cy:shcha" -> <<"s", "h", "c", "h">>
      [] c = "cy:hard" -> <<>>
      [] c = "cy:yeru" -> <<"y">>
      [] c = "cy:soft" -> <<>>
      [] c = "cy:e" -> <<"e">>
      [] c = "cy:yu" -> <<"y", "u">>
      [] c = "cy:ya" -> <<"y", "a">>
      [] c = "CY:a" -> <<"A">>
      [] c = "CY:be" -> <<"B">>
      [] c = "CY:ve" -> <<"V">>
      [] c = "CY:ghe" -> <<"G">>
      [] c = "CY:de" -> <<"D">>
      [] c = "CY:ie" -> <<"E">>
      [] c = "CY:io" -> <<"Y", "o">>
      [] c = "CY:zhe" -> <<"Z", "h">>
      [] c = "CY:ze" -> <<"Z">>
      [] c = "CY:i" -> <<"I">>
      [] c = "CY:short_i" -> <<"Y">>
      [] c = "CY:ka" -> <<"K">>
      [] c = "CY:el" -> <<"L">>
      [] c = "CY:em" -> <<"M">>
      [] c = "CY:en" -> <<"N">>
      [] c = "CY:o" -> <<"O">>
      [] c = "CY:pe" -> <<"P">>
      [] c = "CY:er" -> <<"R">>
      [] c = "CY:es" -> <<"S">>
      [] c = "CY:te" -> <<"T">>
      [] c = "CY:u" -> <<"U">>
      [] c = "CY:ef" -> <<"F">>
      [] c = "CY:ha" -> <<"K", "h">>
      [] c = "CY:tse" -> <<"T", "s">>
      [] c = "CY:che" -> <<"C", "h">>
      [] c = "CY:sha" -> <<"S", "h">>
      [] c = "CY:shcha" -> <<"S", "h", "c", "h">>
      [] c = "CY:hard" -> <<>>
      [] c = "CY:yeru" -> <<"Y">>
      [] c = "CY:soft" -> <<>>
      [] c = "CY:e" -> <<"E">>
      [] c = "CY:yu" -> <<"Y", "u">>
      [] c = "CY:ya" -> <<"Y", "a">>

RECURSIVE Concat(_, _)
\* ''.join(parts[i..])
Concat(parts, i) ==
    IF i > Len(parts) THEN <<>> ELSE parts[i] \o Concat(parts, i + 1)

\* english_pattern, ^[A-Za-z0-9\s\-'.,&()]+$ (the whitespace of the model's
\* names is the space)
EnglishChars ==
    Range(LowerLetters) \cup Range(UpperLetters) \cup DigitChars
        \cup {" ", "-", "'", ".", ",", "&", "(", ")"}

IsEnglish(text) == Len(text) > 0 /\ \A i \in 1..Len(text) : text[i] \in EnglishChars

\* re.search(pattern, text) for a literal pattern
Contains(text, pattern) ==
    \E i \in 1..(Len(text) - Len(pattern) + 1) :
        SubSeq(text, i, i + Len(pattern) - 1) = pattern

\* _get_osm_english_name; <<>> stands for None
EnglishTags == <<"name:en", "int_name", "name_en", "official_name:en">>

GetOsmEnglishName(tag_values) ==
    LET hits == {i \in 1..Len(EnglishTags) :
                    /\ EnglishTags[i] \in DOMAIN tag_values
                    /\ Strip(tag_values[EnglishTags[i]]) # <<>>}
    IN IF hits = {} THEN <<>>
       ELSE Strip(tag_values[EnglishTags[CHOOSE i \in hits : \A j \in hits : i <= j]])

TransliterateGeorgian(text) ==
    LET transliterated ==
            Concat([i \in 1..Len(text) |->
                       IF text[i] \in GeorgianLetters THEN GeorgianMap(text[i])
                       ELSE <<text[i]>>], 1)
    IN Capitalize(transliterated)

TransliterateCyrillic(text) ==
    Concat([i \in 1..Len(text) |->
               IF IsCyrillic(text[i]) THEN CyrillicMap(text[i]) ELSE <<text[i]>>], 1)

\* _transliterate; <<>> stands for None
Transliterate(text) ==
    IF \E i \in 1..Len(text) : IsGeorgian(text[i]) THEN TransliterateGeorgian(text)
    ELSE IF \E i \in 1..Len(text) : IsCyrillic(text[i]) THEN TransliterateCyrillic(text)
    ELSE <<>>

\* translate_poi_name; <<>> stands for None
TranslatePoiName(poi) ==
    LET original_name == Strip(Get(poi, "name", <<>>))
        english_name == GetOsmEnglishName(Get(poi, "tag_values", <<>>))
        transliterated == Transliterate(original_name)
    IN IF original_name = <<>> THEN <<>>
       ELSE IF english_name # <<>> THEN english_name
       ELSE IF transliterated # <<>> /\ transliterated # original_name
            THEN transliterated
       ELSE <<>>

RECURSIVE TranslateFrom(_, _)
TranslateFrom(pois, i) ==
    IF i > Len(pois) THEN <<>>
    ELSE LET poi == pois[i]
             english_name == TranslatePoiName(poi)
         IN (IF english_name # <<>>
                THEN <<Update(poi, [name |-> english_name,
                                    original_name |-> Get(poi, "name", <<>>)])>>
             ELSE IF IsEnglish(Get(poi, "name", <<>>)) THEN <<poi>>
             ELSE <<>>)
            \o TranslateFrom(pois, i + 1)

\* translate_poi_names: the list it returns
TranslatePoiNames(pois) == TranslateFrom(pois, 1)

\* ------------------------------------------ EnhancedDataQualityValidator
MinNameLength == 2
MaxNameLength == 100

\* the text of a category
CategoryChars(category) ==
    CASE category = "historic" -> <<"h", "i", "s", "t", "o", "r", "i", "c">>
      [] category = "museum" -> <<"m", "u", "s", "e", "u", "m">>
      [] category = "attraction" -> <<"a", "t", "t", "r", "a", "c", "t", "i", "o", "n">>
      [] category = "viewpoint" -> <<"v", "i", "e", "w", "p", "o", "i", "n", "t">>
      [] category = "cafe" -> <<"c", "a", "f", "e">>
      [] category = "unknown" -> <<"u", "n", "k", "n", "o", "w", "n">>
      [] category = "guest_house" -> <<"g", "u", "e", "s", "t", "_", "h", "o", "u", "s", "e">>
      [] OTHER -> <<>>

HasValidCoordinates(poi) ==
    LET lat == Get(poi, "lat", 0)
        lon == Get(poi, "lon", 0)
    IN /\ -90 <= lat /\ lat <= 90
       /\ -180 <= lon /\ lon <= 180
       /\ ~(lat = 0 /\ lon = 0)

HasRequiredFields(poi) ==
    /\ {"name", "lat", "lon", "poi_type"} \subseteq DOMAIN poi
    /\ poi.name # <<>>
    /\ poi.lat # 0
    /\ poi.lon # 0
    /\ poi.poi_type # ""

IsSuspicious(name) ==
    LET name_lower == Lower(name)
        all(chars) == Len(name_lower) > 0
                      /\ \A i \in 1..Len(name_lower) : name_lower[i] \in chars
    IN \/ all(DigitChars)
       \/ all(Range(UpperLetters) \cup {" "})
       \/ Contains(name_lower, <<"t", "e", "s", "t">>)
       \/ Contains(name_lower, <<"u", "n", "k", "n", "o", "w", "n">>)
       \/ Contains(name_lower, <<"u", "n", "n", "a", "m", "e", "d">>)
       \/ (Len(name_lower) <= 2 /\ all(Range(LowerLetters)))

common_words ==
    {<<"r", "e", "s", "t", "a", "u", "r", "a", "n", "t">>,
     <<"c", "a", "f", "e">>,
     <<"h", "o", "t", "e", "l">>,
     <<"m", "u", "s", "e", "u", "m">>,
     <<"p", "a", "r", "k">>,
     <<"c", "h", "u", "r", "c", "h">>,
     <<"c", "a", "t", "h", "e", "d", "r", "a", "l">>,
     <<"m", "o", "s", "q", "u", "e">>,
     <<"t", "e", "m", "p", "l", "e">>,
     <<"s", "q", "u", "a", "r", "e">>,
     <<"s", "t", "r", "e", "e", "t">>,
     <<"a", "v", "e", "n", "u", "e">>,
     <<"m", "a", "r", "k", "e", "t">>,
     <<"s", "h", "o", "p">>,
     <<"s", "t", "o", "r", "e">>,
     <<"c", "e", "n", "t", "e", "r">>,
     <<"t", "h", "e", "a", "t", "r", "e">>,
     <<"c", "i", "n", "e", "m", "a">>,
     <<"b", "a", "r">>,
     <<"p", "u", "b">>,
     <<"c", "l", "u", "b">>,
     <<"g", "a", "l", "l", "e", "r", "y">>,
     <<"l", "i", "b", "r", "a", "r", "y">>,
     <<"s", "t", "a", "t", "i", "o", "n">>}

\* name.lower().split() is one word exactly when the name holds no space
HasMeaningfulContent(name) ==
    ~(/\ \A i \in 1..Len(name) : name[i] # " "
      /\ Lower(name) \in common_words)

HasValidCategory(poi) ==
    LET poi_type == Get(poi, "poi_type", "")
    IN poi_type # "" /\ IsEnglish(CategoryChars(poi_type))

IsLikelyDuplicate(poi) ==
    LET name == Lower(Get(poi, "name", <<>>))
    IN \/ Contains(name, <<"(", "d", "u", "p", "l", "i", "c", "a", "t", "e", ")">>)
       \/ Contains(name, <<"(", "c", "o", "p", "y", ")">>)
       \/ Contains(name, <<"(", "2", ")">>)
       \/ Contains(name, <<"(", "o", "l", "d", ")">>)

\* validate_poi of the enhanced validator: the reason of the rejection, "" for
\* a valid record
ValidatePoi(poi) ==
    LET name == Strip(Get(poi, "name", <<>>))
    IN IF name = <<>> THEN "Missing name"
       ELSE IF Len(name) < MinNameLength THEN "Name too short"
       ELSE IF Len(name) > MaxNameLength THEN "Name too long"
       ELSE IF ~IsEnglish(name) THEN "Non-English name"
       ELSE IF ~HasValidCoordinates(poi) THEN "Invalid or missing coordinates"
       ELSE IF ~HasRequiredFields(poi) THEN "Missing required fields"
       ELSE IF IsSuspicious(name) THEN "Suspicious name pattern"
       ELSE IF ~HasMeaningfulContent(name) THEN "Name lacks meaningful content"
       ELSE IF ~HasValidCategory(poi) THEN "Invalid or missing category"
       ELSE IF IsLikelyDuplicate(poi) THEN "Likely duplicate entry"
       ELSE ""

\* the reasons list validate_poi returns: it returns at its first failing check
ValidateReasons(poi) == IF ValidatePoi(poi) = "" THEN <<>> ELSE <<ValidatePoi(poi)>>

RECURSIVE TallyFrom(_, _, _)
\* lines 154-164: stats after the records from position i on
TallyFrom(pois, i, stats) ==
    IF i > Len(pois) THEN stats
    ELSE LET reasons == ValidateReasons(pois[i])
             tally == stats.rejection_reasons
             tallied == [r \in DOMAIN tally \cup Range(reasons) |->
                            Get(tally, r, 0) + (IF r \in Range(reasons) THEN 1 ELSE 0)]
         IN IF reasons = <<>>
            THEN TallyFrom(pois, i + 1, [stats EXCEPT !.valid = @ + 1])
            ELSE TallyFrom(pois, i + 1, [stats EXCEPT !.rejected = @ + 1,
                                                      !.rejection_reasons = tallied])

\* validate_batch: (valid_pois, stats); a reason is tallied under its text
\* before the parenthesis
ValidateBatch(pois) ==
    [valid_pois |-> SelectSeq(pois, LAMBDA poi : ValidatePoi(poi) = ""),
     stats |-> TallyFrom(pois, 1, [total |-> Len(pois), valid |-> 0, rejected |-> 0,
                                   rejection_reasons |-> <<>>])]

\* validate_pois(pois, enhanced=True): the list it returns
ValidatePois(pois) == SelectSeq(pois, LAMBDA poi : ValidatePoi(poi) = "")

\* ----------------------------------------------------------- Standardizer
\* An OSM element of a tile file.  Its tags dict is kept as tags, the set of
\* its keys, and tag_values, the values of the keys the cleaning reads.
Element(type, id, tag_values, position) ==
    [type |-> type, id |-> id, tags |-> DOMAIN tag_values,
     tag_values |-> tag_values] @@ position

At(lat, lon) == [lat |-> lat, lon |-> lon]

CenterAt(lat, lon) == [center |-> [lat |-> lat, lon |-> lon]]

FortNode == Element("node", 1, [name |-> OldFort, historic |-> "castle"], At(41, 44))
FortNodeRetagged ==
    Element("node", 1, [name |-> OldFort, tourism |-> "attraction"], At(41, 44))
FortWay == Element("way", 1, [name |-> OldFortSmall, historic |-> "castle"], CenterAt(41, 44))
TsikheNode == Element("node", 2, [name |-> Tsikhe, tourism |-> "museum"], At(42, 45))
KrepostNode ==
    Element("node", 3, ("name" :> Krepost) @@ ("name:en" :> OldFort)
                       @@ ("historic" :> "castle"), At(41, 44))
FarNode == Element("node", 5, [name |-> OldFort, tourism |-> "viewpoint"], At(95, 44))
NamelessNode == Element("node", 6, [tourism |-> "viewpoint"], At(41, 44))

\* the elements a tile file may hold
Elements == {FortNode, FortNodeRetagged, FortWay, TsikheNode, KrepostNode,
             FarNode, NamelessNode}

RECURSIVE ProcessFrom(_, _)
ProcessFrom(elements, i) ==
    IF i > Len(elements) THEN <<>>
    ELSE LET el == elements[i]
             values == Get(el, "tag_values", <<>>)
             name == IF Get(values, "name", <<>>) # <<>> THEN values["name"]
                     ELSE Get(values, "name:en", <<>>)
             category == IF "tourism" \in DOMAIN values THEN values["tourism"]
                         ELSE IF "amenity" \in DOMAIN values THEN values["amenity"]
                         ELSE IF "historic" \in DOMAIN values THEN "historic"
                         ELSE "unknown"
             center == Get(el, "center", [lat |-> 0, lon |-> 0])
             lat == IF Get(el, "lat", 0) # 0 THEN el.lat ELSE Get(center, "lat", 0)
             lon == IF Get(el, "lon", 0) # 0 THEN el.lon ELSE Get(center, "lon", 0)
         IN (IF name = <<>> \/ lat = 0 \/ lon = 0 THEN <<>>
             ELSE <<[osm_id |-> <<el.type, el.id>>, name |-> name,
                     category |-> category, poi_type |-> category,
                     lat |-> lat, lon |-> lon,
                     coordinates |-> [lat |-> lat, lon |-> lon],
                     tags |-> Get(el, "tags", {}), tag_values |-> values]>>)
            \o ProcessFrom(elements, i + 1)

\* _process_elements
ProcessElements(elements) == ProcessFrom(elements, 1)

\* a variant of _deduplicate that keeps every record
KeepAll(pois) == pois

RECURSIVE DeduplicateExactFrom(_, _, _)
\* a variant of _deduplicate whose key is (name, category), the name as written
DeduplicateExactFrom(pois, i, seen_keys) ==
    IF i > Len(pois) THEN <<>>
    ELSE LET key == <<pois[i].name, pois[i].category>>
         IN IF key \in seen_keys THEN DeduplicateExactFrom(pois, i + 1, seen_keys)
            ELSE <<pois[i]>> \o DeduplicateExactFrom(pois, i + 1, seen_keys \cup {key})

RECURSIVE DeduplicateFrom(_, _, _)
DeduplicateFrom(pois, i, seen_keys) ==
    IF i > Len(pois) THEN <<>>
    ELSE LET key == <<Lower(pois[i].name), pois[i].category>>
         IN IF key \in seen_keys THEN DeduplicateFrom(pois, i + 1, seen_keys)
            ELSE <<pois[i]>> \o DeduplicateFrom(pois, i + 1, seen_keys \cup {key})

\* _deduplicate
Deduplicate(pois) == DeduplicateFrom(pois, 1, {})

\* the raw_elements of a harvest: its tile files' elements, in glob order
RawElements(tile_files) == Concat(tile_files, 1)

\* Standardizer.process_city
CleanCity ==
    /\ pc = "idle"
    /\ c_runs' = Min(c_runs + 1, 2)
    /\ c_before' = silver
    /\ IF c_bronze # "harvest"
       THEN /\ c_result' = "false"
            /\ UNCHANGED silver
       ELSE LET unique_pois == Deduplicate(ProcessElements(RawElements(c_tiles)))
                translated_pois == TranslatePoiNames(unique_pois)
            IN IF Len(translated_pois) = 0
               THEN \* line 72 divides by validation_stats['total']
                    /\ c_result' = "raised"
                    /\ UNCHANGED silver
               ELSE /\ silver' = FileOf(ValidatePois(translated_pois))
                    /\ c_result' = "true"
    /\ UNCHANGED <<today, csvFile, manualFile, gold, runVars, prev, harvestVars,
                   tilingVars, extractVars, loadVars, pipelineVars, callVars,
                   c_bronze, c_tiles>>

\* the tile files of a harvest: a list of raw elements cut into files
RECURSIVE SplitAt(_, _, _)
SplitAt(elements, cuts, from) ==
    IF from > Len(elements) THEN <<>>
    ELSE LET ends == {k \in cuts : k >= from}
             last == IF ends = {} THEN Len(elements)
                     ELSE CHOOSE k \in ends : \A j \in ends : k <= j
         IN <<SubSeq(elements, from, last)>> \o SplitAt(elements, cuts, last + 1)

Harvests(n) ==
    {SplitAt(elements, cuts, 1) :
        elements \in [1..n -> Elements], cuts \in SUBSET (1..(n - 1))}

\* The cleaning of one city's latest harvest
InitClean ==
    /\ EnrichStart
    /\ silver = Absent
    /\ HarvestStart
    /\ bbox = [south |-> 0, west |-> 0, north |-> 1, east |-> 1]
    /\ TilingStart /\ ExtractStart /\ LoadStart /\ PipelineStart /\ CallStart
    /\ c_runs = 0
    /\ c_result = "none"
    /\ c_before = Absent
    /\ \/ c_bronze \in {"nodir", "noharvest"} /\ c_tiles = <<>>
       \/ c_bronze = "harvest" /\ \E n \in 0..MaxRaw : c_tiles \in Harvests(n)

NextClean == CleanCity

SpecClean == InitClean /\ [][NextClean]_vars

\* -------------------------------------------------------------- properties
IdsOf(recs) == {recs[i].osm_id : i \in 1..Len(recs)}

IsPrefix(a, b) == Len(a) <= Len(b) /\ SubSeq(b, 1, Len(a)) = a

\* the records a reader of the Gold file finds
Persisted == IF gold.exists /\ gold.valid THEN gold.recs ELSE <<>>

InSequentialRun == pc \in {"loop", "open", "dump", "done"}

\* C1: in a sequential run, the backend is never called for a record whose
\* osm_id was in Gold when the run started, and between the rewrites and at
\* the end of the run the Gold list still begins with the prior Gold list,
\* unchanged and in order.
C1_EnrichmentMonotonic ==
    InSequentialRun =>
        /\ \A k \in 1..Len(calls) :
              prioritized[calls[k].idx].osm_id \notin IdsOf(goldAtStart)
        /\ pc # "dump" => IsPrefix(goldAtStart, gold.recs)

\* a finished run that found records in Gold, passed one of them over and
\* called the backend for another
C1_Witness ==
    /\ pc = "done"
    /\ goldAtStart # <<>>
    /\ calls # <<>>
    /\ \E i \in 1..Len(prioritized) : prioritized[i].osm_id \in IdsOf(goldAtStart)
    /\ Len(gold.recs) > Len(goldAtStart)

\* C2: the Gold pois.json never holds two records with the same osm_id.
C2_GoldIdentityUnique ==
    gold.valid =>
        \A i \in 1..Len(gold.recs) : \A j \in 1..Len(gold.recs) :
            i # j => gold.recs[i].osm_id # gold.recs[j].osm_id

\* C3 as claimed: with a backend that always fails, a run that follows a
\* completed run on the same inputs leaves the Gold record count as it was.
C3_SecondRunSameCount ==
    (pc = "done" /\ prev # "none") => Len(gold.recs) = Len(goldAtStart)

\* C3 amended: with a backend that always fails, a run that follows a
\* completed run on the same inputs calls the backend for nothing and leaves
\* the count as it was when that run ended below its limit; when that run
\* stopped at its limit, the second run appends at most its own limit of
\* records, none with an osm_id Gold already held.
C3_SecondRunAddsOnlyLeftovers ==
    (pc = "done" /\ prev # "none") =>
        /\ prev = "short" => (calls = <<>> /\ Len(gold.recs) = Len(goldAtStart))
        /\ Len(gold.recs) - Len(goldAtStart) <= limit
        /\ \A i \in (Len(goldAtStart) + 1)..Len(gold.recs) :
              gold.recs[i].osm_id \notin IdsOf(goldAtStart)

\* a second run after a run that ended below its limit and filled Gold
C3_Witness ==
    /\ pc = "done"
    /\ prev = "short"
    /\ Len(goldAtStart) >= 2
    /\ Len(prioritized) >= 2

\* the fallback price map, as the claim reads it
C4_PriceOf(category) ==
    IF category = "historic" THEN 0
    ELSE IF category = "restaurant" THEN 2
    ELSE IF category = "museum" THEN 1
    ELSE 2

\* C4: every failed backend call of a sequential run (exception, non-200
\* status, body or text that does not parse) leaves its record appended, in
\* call order, with a non-empty description, duration_min 60 and the
\* price_level of the fallback price map (0 for "historic", 2 for an unmapped
\* category) and, once the rewrite is done, in the Gold file.
C4_FailureGetsFallback ==
    InSequentialRun =>
        /\ \A k \in 1..Len(calls) :
              calls[k].outcome # "object" =>
                 /\ Len(goldAtStart) + k <= Len(enriched_pois)
                 /\ LET r == enriched_pois[Len(goldAtStart) + k]
                        poi == prioritized[calls[k].idx]
                    IN /\ r.osm_id = poi.osm_id
                       /\ r.category = poi.category
                       /\ r.description # <<>>
                       /\ r.duration_min = 60
                       /\ r.price_level = C4_PriceOf(poi.category)
        /\ (pc \in {"loop", "done"} /\ calls # <<>>) => gold = FileOf(enriched_pois)

\* a finished run with two failed calls, a non-200 status for a "historic"
\* record and a text without an object for another, both records in Gold
C4_Witness ==
    /\ pc = "done"
    /\ Len(calls) = 2
    /\ calls[1].outcome = "status"
    /\ prioritized[calls[1].idx].category = "historic"
    /\ calls[2].outcome = "noobject"
    /\ Len(gold.recs) = Len(goldAtStart) + 2
    /\ gold.recs[Len(goldAtStart) + 1].price_level = 0

\* C5: at every point of a sequential run at most one enriched record is
\* missing from the persisted Gold file.
C5_AtMostOneUnpersisted ==
    InSequentialRun => Len(enriched_pois) - Len(Persisted) <= 1

\* C6: when the parallel run has written Gold, the file holds exactly the
\* records Gold held before and the newly enriched ones, and no two of its
\* records share an osm_id.
C6_ParallelUnionNoDuplicates ==
    pc = "p_done" =>
        /\ {gold.recs[i] : i \in 1..Len(gold.recs)}
             = {goldAtStart[i] : i \in 1..Len(goldAtStart)}
               \cup {enriched_pois[i] : i \in 1..Len(enriched_pois)}
        /\ \A i \in 1..Len(gold.recs) : \A j \in 1..Len(gold.recs) :
              i # j => gold.recs[i].osm_id # gold.recs[j].osm_id

\* C7: when the parallel run has written Gold, every record that was
\* submitted to the pool is in the file.
C7_ParallelNoRecordDropped ==
    pc = "p_done" =>
        \A j \in 1..Len(prioritized) : prioritized[j].osm_id \in IdsOf(gold.recs)

\* C8: a harvest that starts with every tile file present issues no HTTP
\* request, never enters the retry loop and counts every tile as successful.
C8_ReharvestIssuesNoRequest ==
    (h_pc \in {"tile", "fetch", "done"} /\ allPresentAtStart) =>
        /\ ~requested
        /\ h_pc # "fetch"
        /\ h_pc = "done" => success_count = Len(tiles)

\* a finished second harvest over two tiles, both present from the start
C8_Witness ==
    /\ h_pc = "done"
    /\ allPresentAtStart
    /\ Len(tiles) = 2
    /\ success_count = 2

\* C9: while every response of a fetch_tile is a 429, the sleeps are the
\* first of 5, 10, 20, 40, 80, one per request; the fetch returns only after
\* exactly 5 requests, with failure and without a tile file.
C9_RateLimitBackoff ==
    seen = {"429"} =>
        /\ IsPrefix(sleeps, <<5, 10, 20, 40, 80>>)
        /\ nreq = Len(sleeps)
        /\ h_pc \in {"tile", "done"} =>
              /\ fetched = "false"
              /\ nreq = 5
              /\ (tile_i - 1) \notin tileFiles

\* a fetch_tile that has returned after nothing but 429 responses
C9_Witness ==
    /\ h_pc = "tile"
    /\ seen = {"429"}
    /\ fetched = "false"
    /\ sleeps = <<5, 10, 20, 40, 80>>

\* C10: while every response of a fetch_tile is a server error or a network
\* error, each sleep is twice the one before, and the tile is given up after
\* 5 requests.
C10_ErrorBackoffDoubles ==
    (seen # {} /\ seen \subseteq {"5xx", "net"}) =>
        /\ \A i \in 1..(Len(sleeps) - 1) : sleeps[i + 1] = 2 * sleeps[i]
        /\ nreq <= 5
        /\ h_pc \in {"tile", "done"} => (fetched = "false" /\ nreq = 5)

\* C11: a response whose status is neither 200, 429 nor 5xx ends fetch_tile at
\* once with failure: no further request for that tile, one request in all
\* when it was the first response, no tile file, no count.  harvest_city
\* goes on to the next tile, ends only when every tile was tried, and adds
\* one to success_count exactly when fetch_tile returned True.
C11_OtherStatusFailsWithoutRetry ==
    /\ []("other" \in seen => (h_pc # "fetch" /\ fetched = "false"))
    /\ [](seen = {"other"} => nreq = 1)
    /\ [](h_pc = "done" => (tile_i = Len(tiles) /\ success_count <= Len(tiles)))
    /\ [][("other" \in seen' /\ "other" \notin seen) =>
            (tile_i' = tile_i + 1 /\ tileFiles' = tileFiles
             /\ success_count' = success_count)]_vars
    /\ [][(h_pc \in {"tile", "fetch"} /\ tile_i' = tile_i + 1) =>
            success_count' = success_count + (IF fetched' = "true" THEN 1 ELSE 0)]_vars

\* a finished harvest of two tiles: the first was fetched, the second got a
\* 404 as its only response
C11_Witness ==
    /\ h_pc = "done"
    /\ Len(tiles) = 2
    /\ seen = {"other"}
    /\ nreq = 1
    /\ fetched = "false"
    /\ success_count = 1
    /\ tileFiles = {0}

\* C12: whenever fetch_tile is about to issue another request, every request
\* it has issued was followed by a sleep of at least the polite delay.
C12_DelayBetweenRequests ==
    (h_pc = "fetch" /\ retries < MaxRetries) =>
        /\ Len(sleeps) = nreq
        /\ \A i \in 1..Len(sleeps) : sleeps[i] >= PoliteDelay

\* ceil(a / b) for naturals a and b > 0
C14_CeilDiv(a, b) == (a + b - 1) \div b

\* the tiles that hold the unit cell with south-west corner (x, y)
C14_TilesOver(x, y) ==
    {i \in 1..Len(t_tiles) :
        /\ t_tiles[i].south <= y /\ y + 1 <= t_tiles[i].north
        /\ t_tiles[i].west <= x /\ x + 1 <= t_tiles[i].east}

\* C14: generate_tiles returns the grid partition of the box: ceil(height /
\* step) times ceil(width / step) tiles, each at most step high and wide and
\* inside the box, every part of the box in exactly one tile; the box 0..10
\* by 0..10 with step 5 gives 4 tiles of 5 by 5.
C14_TilesPartitionBox ==
    t_pc = "done" =>
        /\ Len(t_tiles) = C14_CeilDiv(t_bbox.north - t_bbox.south, t_step)
                           * C14_CeilDiv(t_bbox.east - t_bbox.west, t_step)
        /\ \A i \in 1..Len(t_tiles) :
              /\ t_tiles[i].south < t_tiles[i].north
              /\ t_tiles[i].west < t_tiles[i].east
              /\ t_tiles[i].north - t_tiles[i].south <= t_step
              /\ t_tiles[i].east - t_tiles[i].west <= t_step
              /\ t_bbox.south <= t_tiles[i].south /\ t_tiles[i].north <= t_bbox.north
              /\ t_bbox.west <= t_tiles[i].west /\ t_tiles[i].east <= t_bbox.east
        /\ \A x \in t_bbox.west..(t_bbox.east - 1) :
              \A y \in t_bbox.south..(t_bbox.north - 1) :
                 Cardinality(C14_TilesOver(x, y)) = 1
        /\ (t_bbox = [south |-> 0, west |-> 0, north |-> 10, east |-> 10] /\ t_step = 5) =>
              /\ Len(t_tiles) = 4
              /\ \A i \in 1..4 : /\ t_tiles[i].north - t_tiles[i].south = 5
                                  /\ t_tiles[i].east - t_tiles[i].west = 5

C15_SecondLoadSameRows ==
    (l_pc = "done" /\ l_loads >= 2) =>
        /\ l_table = l_first
        /\ \A k \in DOMAIN l_table : l_table[k] <= 1

\* C16: when the batch loop is over, the batches tried are the consecutive
\* runs of 50 activities (the last one shorter), each activity in exactly one
\* of them, whichever of them failed.
C16_BatchesCoverEveryActivity ==
    l_pc = "done" =>
        /\ Len(l_attempts) = (l_n + BatchSize - 1) \div BatchSize
        /\ \A j \in 1..Len(l_attempts) :
              /\ l_attempts[j].first = (j - 1) * BatchSize + 1
              /\ l_attempts[j].last = Min(j * BatchSize, l_n)
        /\ \A k \in 1..l_n :
              Cardinality({j \in 1..Len(l_attempts) :
                              l_attempts[j].first <= k /\ k <= l_attempts[j].last}) = 1

\* a finished load of three batches, the first refused, the later ones
\* inserted
C16_Witness ==
    /\ l_pc = "done"
    /\ Len(l_attempts) = 3
    /\ ~l_attempts[1].ok
    /\ l_attempts[2].ok
    /\ l_attempts[3].ok
    /\ l_table[1] = 0
    /\ l_table[l_n] = 1

\* the activities of the batches of this load that were inserted
RECURSIVE C17_Loaded(_)
C17_Loaded(attempts) ==
    IF attempts = <<>> THEN 0
    ELSE (IF Head(attempts).ok THEN Head(attempts).last - Head(attempts).first + 1 ELSE 0)
         + C17_Loaded(Tail(attempts))

\* C17: when some batch failed, the count load_gold_layer reports at its end
\* is the number of activities in the batches that were inserted.
C17_ReportsLoadedCount ==
    (l_pc = "done" /\ \E j \in 1..Len(l_attempts) : ~l_attempts[j].ok) =>
        l_reported = C17_Loaded(l_attempts)

\* C18: once a stage of a city has failed for want of the city's
\* configuration or of its input file, no later stage is run for that city;
\* the run still goes through every city of the list.
C18_ConfigFailureAbortsCity ==
    /\ \A j \in 1..Len(p_log) : p_log[j].result = "missing" => j = Len(p_log)
    /\ p_pc = "finished" => p_visited = Cities

\* The cleaning, the CSV upload and the sequential Gold stage of one city,
\* against a backend that always fails
InitQuality ==
    /\ EnrichStart
    /\ silver = Absent
    /\ HarvestStart
    /\ bbox = [south |-> 0, west |-> 0, north |-> 1, east |-> 1]
    /\ TilingStart /\ ExtractStart /\ LoadStart /\ PipelineStart /\ CallStart
    /\ c_runs = 0
    /\ c_result = "none"
    /\ c_before = Absent
    /\ c_bronze = "harvest"
    /\ \E n \in 0..1 : c_tiles \in Harvests(n)

NextQuality ==
    \/ CleanCity
    \/ \E rows \in CsvRowsAnyInputs : ProcessCsv(rows)
    \/ \E lim \in 1..MaxLimit : StartRun(lim)
    \/ SkipExisting
    \/ \E resp \in FailingResponses : CallBackend(resp)
    \/ OpenGold
    \/ DumpGold
    \/ FinishRun
    \/ ReturnRun

SpecQuality == InitQuality /\ [][NextQuality]_vars

\* ---------------------------------------------------------------- C19
\* the coordinates a record carries: lat and lon, or coordinates.lat and
\* coordinates.lng
C19_Lat(r) == IF "lat" \in DOMAIN r THEN r.lat ELSE Get(Get(r, "coordinates", <<>>), "lat", 0)

C19_Lon(r) ==
    IF "lon" \in DOMAIN r THEN r.lon
    ELSE LET c == Get(r, "coordinates", <<>>)
         IN IF "lng" \in DOMAIN c THEN c.lng ELSE Get(c, "lon", 0)

\* the checks validate_poi makes on a name
C19_NameValid(name) ==
    /\ name # <<>>
    /\ Len(name) >= MinNameLength /\ Len(name) <= MaxNameLength
    /\ IsEnglish(name)
    /\ ~IsSuspicious(name)
    /\ HasMeaningfulContent(name)
    /\ ~IsLikelyDuplicate([name |-> name])

C19_Clean(r) ==
    /\ -90 <= C19_Lat(r) /\ C19_Lat(r) <= 90
    /\ -180 <= C19_Lon(r) /\ C19_Lon(r) <= 180
    /\ ~(C19_Lat(r) = 0 /\ C19_Lon(r) = 0)
    /\ C19_NameValid(Get(r, "name", <<>>))

\* C19: every record of the Silver pois.json written by
\* Standardizer.process_city and every record of the Gold pois.json written by
\* AIEnricher.process_city, merged CSV records included, has a latitude in
\* [-90, 90], a longitude in [-180, 180], is not at (0, 0) and has a name that
\* passes the name validator.
C19_OnlyCleanRecordsDownstream ==
    /\ \A i \in 1..Len(silver.recs) : C19_Clean(silver.recs[i])
    /\ \A i \in 1..Len(gold.recs) : C19_Clean(gold.recs[i])

\* ---------------------------------------------------------------- C20
\* elements of the harvest that share a type and id carry the same tags
C20_SameTagsPerObject ==
    \A a, b \in Range(RawElements(c_tiles)) :
        (a.type = b.type /\ a.id = b.id) => a.tag_values = b.tag_values

C20_Ids(file) == {file.recs[i].osm_id : i \in 1..Len(file.recs)}

\* C20: when the elements of the latest harvest's tile files that share a
\* type and id carry the same tags, the Silver pois.json that
\* Standardizer.process_city wrote holds no two records with the same osm_id,
\* and a second run over the same harvest wrote the same identities, again
\* one record each.
C20_IdentityUniqueInSilver ==
    (c_result = "true" /\ C20_SameTagsPerObject) =>
        /\ \A i, j \in 1..Len(silver.recs) :
               silver.recs[i].osm_id = silver.recs[j].osm_id => i = j
        /\ c_runs = 2 =>
               /\ C20_Ids(silver) = C20_Ids(c_before)
               /\ Len(silver.recs) = Len(c_before.recs)

\* a harvest of two tile files that both hold one element, with others,
\* cleaned twice
C20_Witness ==
    /\ c_runs = 2
    /\ c_result = "true"
    /\ C20_SameTagsPerObject
    /\ Len(c_tiles) = 2
    /\ \E a \in Range(c_tiles[1]), b \in Range(c_tiles[2]) :
           a.type = b.type /\ a.id = b.id
    /\ Len(silver.recs) = 2

\* ----------------------------------------------- _deduplicate on its own
\* the records _process_elements may hand over: a name in either case or in
\* Georgian, one of two categories, one of two nodes
DedupPois ==
    {[osm_id |-> <<"node", id>>, name |-> name, category |-> category] :
        id \in 1..2, name \in {OldFort, OldFortSmall, Tsikhe},
        category \in {"historic", "museum"}}

DedupInputs == UNION {[1..n -> DedupPois] : n \in 0..MaxList}

InitDedup ==
    /\ EnrichStart
    /\ silver = Absent
    /\ HarvestStart
    /\ bbox = [south |-> 0, west |-> 0, north |-> 1, east |-> 1]
    /\ TilingStart /\ ExtractStart /\ LoadStart /\ PipelineStart /\ CleanStart
    /\ u_fn = "none"
    /\ u_in \in DedupInputs
    /\ u_out = <<>>

CallDeduplicate ==
    /\ u_fn = "none"
    /\ u_fn' = "_deduplicate"
    /\ u_out' = Deduplicate(u_in)
    /\ UNCHANGED <<enrichVars, harvestVars, tilingVars, extractVars, loadVars,
                   pipelineVars, cleanVars, u_in>>

NextDedup == CallDeduplicate

SpecDedup == InitDedup /\ [][NextDedup]_vars

\* ---------------------------------------------------------------- C21
C21_Key(poi) == <<Lower(poi.name), poi.category>>

\* the positions of the first occurrence of each key
C21_Firsts(pois) ==
    {i \in 1..Len(pois) : \A j \in 1..(i - 1) : C21_Key(pois[j]) # C21_Key(pois[i])}

\* C21: _deduplicate returns exactly one record per distinct (lowercased name,
\* category) key, namely the first record of the input with that key, and the
\* kept records stand in their input order; two records with the same key and
\* different identifiers give one output record.
C21_DeduplicateKeepsFirstPerKey ==
    u_fn = "_deduplicate" =>
        LET firsts == C21_Firsts(u_in)
        IN /\ Len(u_out) = Cardinality(firsts)
           /\ \A i \in firsts :
                  u_out[Cardinality({j \in firsts : j <= i})] = u_in[i]

\* "Old Fort" of node 1, then a museum, then "old fort" of node 2: two records kept
C21_Witness ==
    /\ u_fn = "_deduplicate"
    /\ Len(u_in) = 3
    /\ C21_Key(u_in[1]) = C21_Key(u_in[3])
    /\ u_in[1].name # u_in[3].name
    /\ u_in[1].osm_id # u_in[3].osm_id
    /\ C21_Key(u_in[1]) # C21_Key(u_in[2])
    /\ u_out = <<u_in[1], u_in[2]>>

\* --------------------------------------------- validate_batch on its own
\* records as the translator hands them over
BatchPois ==
    {[name |-> name, lat |-> lat, lon |-> 44, poi_type |-> "historic"] :
        name \in {OldFort, Krepost, TestBar, Abc, OneTwoThree, Ab, OldFortCopy},
        lat \in {41, 95}}

BatchInputs == UNION {[1..n -> BatchPois] : n \in 0..MaxBatch}

InitValidate ==
    /\ EnrichStart
    /\ silver = Absent
    /\ HarvestStart
    /\ bbox = [south |-> 0, west |-> 0, north |-> 1, east |-> 1]
    /\ TilingStart /\ ExtractStart /\ LoadStart /\ PipelineStart /\ CleanStart
    /\ u_fn = "none"
    /\ u_in \in BatchInputs
    /\ u_out = <<>>

CallValidateBatch ==
    /\ u_fn = "none"
    /\ u_fn' = "validate_batch"
    /\ u_out' = ValidateBatch(u_in)
    /\ UNCHANGED <<enrichVars, harvestVars, tilingVars, extractVars, loadVars,
                   pipelineVars, cleanVars, u_in>>

NextValidate == CallValidateBatch

SpecValidate == InitValidate /\ [][NextValidate]_vars

\* ---------------------------------------------------------------- C22
\* every reason that applies to a record, each check taken on its own
C22_Applicable(poi) ==
    LET name == Strip(Get(poi, "name", <<>>))
    IN {r \in {"Missing name", "Name too short", "Name too long", "Non-English name",
               "Invalid or missing coordinates", "Missing required fields",
               "Suspicious name pattern", "Name lacks meaningful content",
               "Invalid or missing category", "Likely duplicate entry"} :
           CASE r = "Missing name" -> name = <<>>
             [] r = "Name too short" -> name # <<>> /\ Len(name) < MinNameLength
             [] r = "Name too long" -> Len(name) > MaxNameLength
             [] r = "Non-English name" -> name # <<>> /\ ~IsEnglish(name)
             [] r = "Invalid or missing coordinates" -> ~HasValidCoordinates(poi)
             [] r = "Missing required fields" -> ~HasRequiredFields(poi)
             [] r = "Suspicious name pattern" -> IsSuspicious(name)
             [] r = "Name lacks meaningful content" -> ~HasMeaningfulContent(name)
             [] r = "Invalid or missing category" -> ~HasValidCategory(poi)
             [] r = "Likely duplicate entry" -> IsLikelyDuplicate(poi)}

\* C22: validate_batch tallies every rejection reason of every record: the
\* frequency of a reason in rejection_reasons is the number of records of the
\* batch the reason applies to, also for a record that fails several checks.
C22_TalliesEveryReason ==
    u_fn = "validate_batch" =>
        \A r \in UNION {C22_Applicable(u_in[i]) : i \in 1..Len(u_in)} :
            Get(u_out.stats.rejection_reasons, r, 0)
                = Cardinality({i \in 1..Len(u_in) : r \in C22_Applicable(u_in[i])})

\* ---------------------------------------------------------------- C23
C23_AllIn(name, chars) == name # <<>> /\ \A i \in 1..Len(name) : name[i] \in chars

\* the suspicious patterns: pure numeric, all-caps single token, a literal
\* test/unknown/unnamed, a one- or two-letter code, a parenthetical duplicate
\* marker
C23_Suspicious(name) ==
    \/ C23_AllIn(name, DigitChars)
    \/ C23_AllIn(name, Range(UpperLetters))
    \/ Contains(Lower(name), <<"t", "e", "s", "t">>)
    \/ Contains(Lower(name), <<"u", "n", "k", "n", "o", "w", "n">>)
    \/ Contains(Lower(name), <<"u", "n", "n", "a", "m", "e", "d">>)
    \/ (Len(name) <= 2 /\ C23_AllIn(name, Range(LowerLetters) \cup Range(UpperLetters)))
    \/ IsLikelyDuplicate([name |-> name])

\* C23: no record whose name matches a suspicious pattern is returned as valid
\* by the enhanced validator.
C23_SuspiciousNamesRejected ==
    u_fn = "validate_batch" =>
        \A i \in 1..Len(u_out.valid_pois) : ~C23_Suspicious(u_out.valid_pois[i].name)

\* ------------------------------------------------ the translator on its own
\* names written in the letters of one transliteration table
ScriptNames ==
    UNION {[1..n -> GeorgianLetters] \cup [1..n -> CyrillicSmall \cup CyrillicCapital] :
              n \in 1..MaxName}

\* a record as _deduplicate hands it over: a name in one script and no tags,
\* or one of the model's names with or without an alternate-language tag
TranslateInputs ==
    {[name |-> name, tag_values |-> <<>>] : name \in ScriptNames}
    \cup {[name |-> name, tag_values |-> tag_values] :
             name \in {OldFort, Tsikhe, Krepost, <<"ar:alef">>, <<"ge:he">>},
             tag_values \in {<<>>, ("name:en" :> Narikala), ("int_name" :> OldFort)}}

InitTranslate ==
    /\ EnrichStart
    /\ silver = Absent
    /\ HarvestStart
    /\ bbox = [south |-> 0, west |-> 0, north |-> 1, east |-> 1]
    /\ TilingStart /\ ExtractStart /\ LoadStart /\ PipelineStart /\ CleanStart
    /\ u_fn = "none"
    /\ u_in \in TranslateInputs
    /\ u_out = <<>>

CallTranslatePoiName ==
    /\ u_fn = "none"
    /\ u_fn' = "translate_poi_name"
    /\ u_out' = TranslatePoiName(u_in)
    /\ UNCHANGED <<enrichVars, harvestVars, tilingVars, extractVars, loadVars,
                   pipelineVars, cleanVars, u_in>>

\* translate_poi_names on the list of that one record
CallTranslatePoiNames ==
    /\ u_fn = "none"
    /\ u_fn' = "translate_poi_names"
    /\ u_out' = TranslatePoiNames(<<u_in>>)
    /\ UNCHANGED <<enrichVars, harvestVars, tilingVars, extractVars, loadVars,
                   pipelineVars, cleanVars, u_in>>

NextTranslate == CallTranslatePoiName \/ CallTranslatePoiNames

SpecTranslate == InitTranslate /\ [][NextTranslate]_vars

\* ---------------------------------------------------------------- C24
\* a non-empty name in the letters of one mapping table, and no
\* alternate-language tag
C24_SupportedOnly(poi) ==
    /\ poi.name # <<>>
    /\ \/ \A i \in 1..Len(poi.name) : poi.name[i] \in GeorgianLetters
       \/ \A i \in 1..Len(poi.name) : poi.name[i] \in CyrillicSmall \cup CyrillicCapital
    /\ GetOsmEnglishName(poi.tag_values) = <<>>

\* C24: for a non-empty name made only of the letters of the Georgian or of
\* the Cyrillic mapping table, with no alternate-language tag,
\* translate_poi_name returns a non-empty string of Latin letters.
C24_SupportedScriptGivesLatin ==
    (u_fn = "translate_poi_name" /\ C24_SupportedOnly(u_in)) =>
        /\ u_out # <<>>
        /\ \A i \in 1..Len(u_out) :
               u_out[i] \in Range(LowerLetters) \cup Range(UpperLetters)

\* ---------------------------------------------------------------- C25
\* C25: translate_poi_names leaves unchanged the name of a record whose name
\* already matches the allowed character set; alternate-language tags and
\* transliteration touch only the names that do not match it.
C25_EnglishNameKept ==
    (u_fn = "translate_poi_names" /\ IsEnglish(u_in.name)) =>
        /\ Len(u_out) = 1
        /\ u_out[1].name = u_in.name

\* ------------------------------------------------ POIPrioritizer.score_poi
\* POI_TYPE_WEIGHTS.get(poi_type, 5)
PoiTypeWeight(poi_type) ==
    CASE poi_type = <<"m", "u", "s", "e", "u", "m">> -> 40
      [] poi_type = <<"h", "i", "s", "t", "o", "r", "i", "c">> -> 38
      [] poi_type = <<"v", "i", "e", "w", "p", "o", "i", "n", "t">> -> 35
      [] poi_type = <<"t", "e", "m", "p", "l", "e">> -> 33
      [] poi_type = <<"p", "a", "r", "k">> -> 30
      [] poi_type = <<"m", "a", "r", "k", "e", "t">> -> 28
      [] poi_type = <<"m", "o", "n", "u", "m", "e", "n", "t">> -> 25
      [] poi_type = <<"b", "e", "a", "c", "h">> -> 25
      [] poi_type = <<"a", "t", "t", "r", "a", "c", "t", "i", "o", "n">> -> 35
      [] poi_type = <<"c", "a", "s", "t", "l", "e">> -> 38
      [] poi_type = <<"g", "a", "l", "l", "e", "r", "y">> -> 35
      [] poi_type = <<"z", "o", "o">> -> 30
      [] poi_type = <<"a", "q", "u", "a", "r", "i", "u", "m">> -> 30
      [] poi_type = <<"t", "h", "e", "m", "e", "_", "p", "a", "r", "k">> -> 28
      [] poi_type = <<"r", "e", "s", "t", "a", "u", "r", "a", "n", "t">> -> 10
      [] poi_type = <<"c", "a", "f", "e">> -> 8
      [] poi_type = <<"h", "o", "t", "e", "l">> -> 15
      [] poi_type = <<"s", "h", "o", "p">> -> 5
      [] poi_type = <<"s", "e", "r", "v", "i", "c", "e">> -> 3
      [] OTHER -> 5

IMPORTANCE_KEYWORDS ==
    <<[keyword |-> <<"u", "n", "e", "s", "c", "o">>, bonus |-> 20],
      [keyword |-> <<"w", "o", "r", "l", "d", " ", "h", "e", "r", "i", "t", "a", "g", "e">>, bonus |-> 20],
      [keyword |-> <<"n", "a", "t", "i", "o", "n", "a", "l">>, bonus |-> 15],
      [keyword |-> <<"s", "t", "a", "t", "e">>, bonus |-> 15],
      [keyword |-> <<"f", "a", "m", "o", "u", "s">>, bonus |-> 10],
      [keyword |-> <<"p", "o", "p", "u", "l", "a", "r">>, bonus |-> 10],
      [keyword |-> <<"o", "l", "d">>, bonus |-> 8],
      [keyword |-> <<"a", "n", "c", "i", "e", "n", "t">>, bonus |-> 8],
      [keyword |-> <<"h", "i", "s", "t", "o", "r", "i", "c">>, bonus |-> 8],
      [keyword |-> <<"m", "u", "s", "e", "u", "m">>, bonus |-> 5],
      [keyword |-> <<"g", "a", "l", "l", "e", "r", "y">>, bonus |-> 5],
      [keyword |-> <<"p", "a", "l", "a", "c", "e">>, bonus |-> 12],
      [keyword |-> <<"t", "o", "w", "e", "r">>, bonus |-> 10],
      [keyword |-> <<"c", "a", "t", "h", "e", "d", "r", "a", "l">>, bonus |-> 10],
      [keyword |-> <<"m", "o", "s", "q", "u", "e">>, bonus |-> 10],
      [keyword |-> <<"s", "y", "n", "a", "g", "o", "g", "u", "e">>, bonus |-> 10],
      [keyword |-> <<"c", "h", "u", "r", "c", "h">>, bonus |-> 8]>>

\* osm_tags is the list of its (key, value) items; d.get(key), <<>> for None
TagGet(osm_tags, key) ==
    IF \E i \in 1..Len(osm_tags) : osm_tags[i][1] = key
    THEN osm_tags[CHOOSE i \in 1..Len(osm_tags) : osm_tags[i][1] = key][2]
    ELSE <<>>

\* str(osm_tags): {'key': 'value', ...}
DictStr(osm_tags) ==
    <<"{">> \o Concat([i \in 1..Len(osm_tags) |->
                          (IF i > 1 THEN <<",", " ">> ELSE <<>>)
                          \o <<"'">> \o osm_tags[i][1] \o <<"'", ":", " ", "'">>
                          \o osm_tags[i][2] \o <<"'">>], 1)
    \o <<"}">>

\* f"{name} {name_local} {str(osm_tags)}".lower()
SearchText(poi) ==
    Lower(poi.name \o <<" ">> \o poi.name_local \o <<" ">> \o DictStr(poi.osm_tags))

RECURSIVE KeywordBonusSum(_, _)
\* a keyword bonus that adds up every keyword found
KeywordBonusSum(search_text, k) ==
    IF k > Len(IMPORTANCE_KEYWORDS) THEN 0
    ELSE LET rest == KeywordBonusSum(search_text, k + 1)
         IN IF Contains(search_text, IMPORTANCE_KEYWORDS[k].keyword)
            THEN rest + IMPORTANCE_KEYWORDS[k].bonus
            ELSE rest

RECURSIVE KeywordBonus(_, _)
\* lines 110-113: the loop over IMPORTANCE_KEYWORDS from item k on
KeywordBonus(search_text, k) ==
    IF k > Len(IMPORTANCE_KEYWORDS) THEN 0
    ELSE LET rest == KeywordBonus(search_text, k + 1)
         IN IF Contains(search_text, IMPORTANCE_KEYWORDS[k].keyword)
               /\ IMPORTANCE_KEYWORDS[k].bonus > rest
            THEN IMPORTANCE_KEYWORDS[k].bonus
            ELSE rest

ScorePoi(poi) ==
    LET name == poi.name
        name_local == poi.name_local
        osm_tags == poi.osm_tags
        has(key) == TagGet(osm_tags, key) # <<>>
        score ==
            PoiTypeWeight(Lower(poi.poi_type))
            + (IF name # <<>> /\ Len(name) > 5 THEN 10 ELSE 0)
            + (IF name_local # <<>> /\ name_local # name THEN 5 ELSE 0)
            + (IF Len(name) > 10 THEN 5 ELSE 0)
            + (IF has(<<"d", "e", "s", "c", "r", "i", "p", "t", "i", "o", "n">>) THEN 5 ELSE 0)
            + (IF has(<<"o", "p", "e", "n", "i", "n", "g", "_", "h", "o", "u", "r", "s">>) THEN 5 ELSE 0)
            + (IF has(<<"w", "e", "b", "s", "i", "t", "e">>) \/ has(<<"c", "o", "n", "t", "a", "c", "t", ":", "w", "e", "b", "s", "i", "t", "e">>) THEN 5 ELSE 0)
            + (IF has(<<"p", "h", "o", "n", "e">>) \/ has(<<"c", "o", "n", "t", "a", "c", "t", ":", "p", "h", "o", "n", "e">>) THEN 3 ELSE 0)
            + (IF has(<<"w", "i", "k", "i", "p", "e", "d", "i", "a">>) \/ has(<<"w", "i", "k", "i", "d", "a", "t", "a">>) THEN 2 ELSE 0)
            + KeywordBonus(SearchText(poi), 1)
    IN Min(score, 100)

\* the tags a record may carry
ScoreTags ==
    <<<<<<"d", "e", "s", "c", "r", "i", "p", "t", "i", "o", "n">>, <<"o", "l", "d">>>>,
      <<<<"o", "p", "e", "n", "i", "n", "g", "_", "h", "o", "u", "r", "s">>, <<"9", "-", "5">>>>,
      <<<<"w", "e", "b", "s", "i", "t", "e">>, <<"x", ".", "g", "e">>>>,
      <<<<"p", "h", "o", "n", "e">>, <<"1", "1", "2">>>>,
      <<<<"w", "i", "k", "i", "d", "a", "t", "a">>, <<"Q", "1">>>>,
      <<<<"h", "e", "r", "i", "t", "a", "g", "e">>, <<"U", "N", "E", "S", "C", "O">>>>>>

\* the items of ScoreTags at the positions picked, in order
RECURSIVE PickTags(_, _)
PickTags(picked, i) ==
    IF i > Len(ScoreTags) THEN <<>>
    ELSE (IF i \in picked THEN <<ScoreTags[i]>> ELSE <<>>) \o PickTags(picked, i + 1)

NationalMuseum == <<"O", "l", "d", " ", "N", "a", "t", "i", "o", "n", "a", "l", " ", "M", "u", "s", "e", "u", "m">>

ScoreInputs ==
    {[poi_type |-> poi_type, name |-> name, name_local |-> name_local,
      osm_tags |-> PickTags(picked, 1)] :
        poi_type \in {<<"m", "u", "s", "e", "u", "m">>, <<"C", "a", "s", "t", "l", "e">>, <<"c", "a", "f", "e">>, <<"b", "a", "k", "e", "r", "y">>, <<>>},
        name \in {<<>>, Abc, OldFort, NationalMuseum},
        name_local \in {<<>>, OldFort, Tsikhe},
        picked \in {t \in SUBSET (1..Len(ScoreTags)) : Cardinality(t) <= MaxTags}}

InitScore ==
    /\ EnrichStart
    /\ silver = Absent
    /\ HarvestStart
    /\ bbox = [south |-> 0, west |-> 0, north |-> 1, east |-> 1]
    /\ TilingStart /\ ExtractStart /\ LoadStart /\ PipelineStart /\ CleanStart
    /\ u_fn = "none"
    /\ u_in \in ScoreInputs
    /\ u_out = <<>>

CallScorePoi ==
    /\ u_fn = "none"
    /\ u_fn' = "score_poi"
    /\ u_out' = ScorePoi(u_in)
    /\ UNCHANGED <<enrichVars, harvestVars, tilingVars, extractVars, loadVars,
                   pipelineVars, cleanVars, u_in>>

NextScore == CallScorePoi

SpecScore == InitScore /\ [][NextScore]_vars

\* ---------------------------------------------------------------- C27
\* the bonuses of the importance keywords found in the record's text
C27_Found(poi) ==
    LET text == SearchText(poi)
    IN {IMPORTANCE_KEYWORDS[k].bonus : k \in
           {j \in 1..Len(IMPORTANCE_KEYWORDS) :
               Contains(text, IMPORTANCE_KEYWORDS[j].keyword)}}

C27_Top(poi) ==
    LET found == C27_Found(poi)
    IN IF found = {} THEN 0 ELSE CHOOSE b \in found : \A c \in found : c <= b

\* the fixed bonuses for what the record carries
C27_Presence(poi) ==
    LET has(keys) == \E i \in 1..Len(poi.osm_tags) :
                        poi.osm_tags[i][1] \in keys /\ poi.osm_tags[i][2] # <<>>
    IN (IF Len(poi.name) > 5 THEN 10 ELSE 0)
       + (IF poi.name_local \notin {<<>>, poi.name} THEN 5 ELSE 0)
       + (IF Len(poi.name) > 10 THEN 5 ELSE 0)
       + (IF has({<<"d", "e", "s", "c", "r", "i", "p", "t", "i", "o", "n">>}) THEN 5 ELSE 0)
       + (IF has({<<"o", "p", "e", "n", "i", "n", "g", "_", "h", "o", "u", "r", "s">>}) THEN 5 ELSE 0)
       + (IF has({<<"w", "e", "b", "s", "i", "t", "e">>, <<"c", "o", "n", "t", "a", "c", "t", ":", "w", "e", "b", "s", "i", "t", "e">>}) THEN 5 ELSE 0)
       + (IF has({<<"p", "h", "o", "n", "e">>, <<"c", "o", "n", "t", "a", "c", "t", ":", "p", "h", "o", "n", "e">>}) THEN 3 ELSE 0)
       + (IF has({<<"w", "i", "k", "i", "p", "e", "d", "i", "a">>, <<"w", "i", "k", "i", "d", "a", "t", "a">>}) THEN 2 ELSE 0)

\* C27: score_poi returns min(sum, 100), the sum being the category weight (5
\* for a category without a weight) plus the presence bonuses plus the single
\* highest bonus among the importance keywords found in the name and tags
\* text; the score is an integer of 0..100.
C27_ScoreIsCappedSum ==
    u_fn = "score_poi" =>
        LET sum == PoiTypeWeight(Lower(u_in.poi_type)) + C27_Presence(u_in)
                   + C27_Top(u_in)
        IN /\ u_out = (IF sum < 100 THEN sum ELSE 100)
           /\ u_out \in 0..100

\* a museum named "Old National Museum": old, national and museum are found,
\* national's 15 counts
C27_Witness ==
    /\ u_fn = "score_poi"
    /\ u_in.name = NationalMuseum
    /\ Lower(u_in.poi_type) = <<"m", "u", "s", "e", "u", "m">>
    /\ u_in.osm_tags = <<>>
    /\ u_in.name_local = <<>>
    /\ C27_Found(u_in) = {8, 15, 5}
    /\ u_out = 70

\* ------------------------------------------------- _enrich_poi on its own
\* HTTP 200 responses whose 'response' text is any token string
ParseInputs ==
    {[kind |-> "http", status |-> 200, body |-> "json", content |-> c] :
        c \in UNION {[1..n -> Tokens] : n \in 0..MaxParse}}

InitParse ==
    /\ EnrichStart
    /\ silver = Absent
    /\ HarvestStart
    /\ bbox = [south |-> 0, west |-> 0, north |-> 1, east |-> 1]
    /\ TilingStart /\ ExtractStart /\ LoadStart /\ PipelineStart /\ CleanStart
    /\ u_fn = "none"
    /\ u_in \in ParseInputs
    /\ u_out = <<>>

\* AIEnricher._enrich_poi for the first Silver record
CallEnrichPoi ==
    /\ u_fn = "none"
    /\ u_fn' = "_enrich_poi"
    /\ u_out' = EnrichPoi(OsmPoi(1), CityName, u_in)
    /\ UNCHANGED <<enrichVars, harvestVars, tilingVars, extractVars, loadVars,
                   pipelineVars, cleanVars, u_in>>

\* ParallelAIEnricher._enrich_poi for the first Silver record
CallParallelEnrichPoi ==
    /\ u_fn = "none"
    /\ u_fn' = "parallel _enrich_poi"
    /\ u_out' = ParallelEnrichPoi(OsmPoi(1), u_in)
    /\ UNCHANGED <<enrichVars, harvestVars, tilingVars, extractVars, loadVars,
                   pipelineVars, cleanVars, u_in>>

NextParse == CallEnrichPoi \/ CallParallelEnrichPoi

SpecParse == InitParse /\ [][NextParse]_vars

\* ---------------------------------------------------------------- C28
\* the first well-formed balanced object of a text
C28_FirstObject(content) ==
    LET starts == {i \in 1..Len(content) :
                      \E j \in i..Len(content) : JsonValid(SubSeq(content, i, j))}
        i == CHOOSE k \in starts : \A m \in starts : k <= m
        j == CHOOSE k \in i..Len(content) : JsonValid(SubSeq(content, i, k))
    IN SubSeq(content, i, j)

\* C28: whenever the response text holds a well-formed balanced object,
\* _enrich_poi (of both enrichers) takes its payload from the first such
\* object, whatever surrounds it, further braces included: it neither falls
\* back nor returns nothing.
C28_FirstBalancedObjectParsed ==
    (u_fn \in {"_enrich_poi", "parallel _enrich_poi"} /\ HasObject(u_in.content)) =>
        LET payload == JsonLoads(C28_FirstObject(u_in.content))
        IN /\ u_out # <<>>
           /\ u_out # GenerateFallbackEnrichment(OsmPoi(1), CityName)
           /\ u_out # MockEnrich(OsmPoi(1))
           /\ \A k \in DOMAIN payload : u_out[k] = payload[k]

\* ---------------------------------------------------------------- C29
\* C29: fetch_tile issues at most max_retries HTTP requests whatever the
\* server answers, a 200 whose body is not JSON or has no 'elements' key
\* included, and then returns.
C29_AtMostMaxRetriesRequests == nreq <= MaxRetries

\* ---------------------------------------------------------------- C26
\* C26: in a sequential run the manual and CSV records still carry
\* priority_score 100 in the prioritized list, and no harvested record is sent
\* to the backend while a manual or CSV record that Gold did not hold is still
\* unsent.
C26_ManualFirst ==
    InSequentialRun =>
        /\ \A i \in 1..Len(prioritized) :
               Get(prioritized[i], "is_manual", FALSE) => prioritized[i].priority_score = 100
        /\ \A k \in 1..Len(calls) :
               ~Get(prioritized[calls[k].idx], "is_manual", FALSE) =>
                   \A j \in 1..Len(prioritized) :
                       (/\ Get(prioritized[j], "is_manual", FALSE)
                        /\ prioritized[j].osm_id \notin IdsOf(goldAtStart))
                       => \E m \in 1..(k - 1) : calls[m].idx = j

\* ---------------------------------------------------------------- C30
\* the merged input with the scores _prioritize_pois gives
C30_Scored ==
    LET merged == MergedPois
    IN  [i \in 1..Len(merged) |-> Update(merged[i], [priority_score |-> Score(merged[i])])]

C30_WithScore(recs, score) == SelectSeq(recs, LAMBDA r : r.priority_score = score)

\* the positions of the prioritized list whose record Gold did not hold when
\* the run started
C30_Eligible ==
    LET ids == IdsOf(goldAtStart)
    IN  {i \in 1..Len(prioritized) : prioritized[i].osm_id \notin ids}

\* C30: in a sequential run with limit L the prioritized list is the merged
\* input in non-increasing priority_score order, ties in input order; the
\* records sent to the backend are, in that order, the first records of the
\* list that Gold did not hold at the start of the run, L of them at the end
\* of the run (all when fewer); the records passed over do not count, and Gold
\* grows by at most L records.
C30_FirstLByPriority ==
    InSequentialRun =>
        LET scored == C30_Scored
            eligible == C30_Eligible
        IN  /\ Len(prioritized) = Len(scored)
            /\ \A i \in 1..Len(prioritized) : \A j \in i..Len(prioritized) :
                   prioritized[i].priority_score >= prioritized[j].priority_score
            /\ \A score \in {scored[i].priority_score : i \in 1..Len(scored)} :
                   C30_WithScore(prioritized, score) = C30_WithScore(scored, score)
            /\ Len(calls) <= limit
            /\ \A k \in 1..Len(calls) :
                   /\ calls[k].idx \in eligible
                   /\ Cardinality({i \in eligible : i <= calls[k].idx}) = k
            /\ pc = "done" => Len(calls) = Min(limit, Cardinality(eligible))
            /\ gold.valid => Len(gold.recs) - Len(goldAtStart) <= limit

\* a finished run with limit 1 that passed a record over, sent the next one
\* and left another unsent
C30_Witness ==
    /\ pc = "done"
    /\ limit = 1
    /\ Len(calls) = 1
    /\ calls[1].idx = 2
    /\ Len(prioritized) = 3
    /\ prioritized[1].osm_id \in IdsOf(goldAtStart)
    /\ 3 \in C30_Eligible
    /\ Len(gold.recs) = Len(goldAtStart) + 1

====
